---- MODULE Spec2Model ----
(***************************************************************************)
(* A model of the codex-swarm orchestration engine (swarm_skills/swarm):   *)
(* the Integrator (integrator.py), the Worker Selector (selection.py),     *)
(* the Router (routing.py), the Executor (executor.py) and the Runner      *)
(* control loop (runner.py).                                               *)
(*                                                                         *)
(* Each component has its own specification over its own variables; the    *)
(* variables of the other components stay at their initial value.          *)
(*   SpecMerge      merge_expert_results, one call, step by step           *)
(*   SpecSelection  _resolve_selection, one call                           *)
(*   SpecAllowlist  _enforce_allowlist on a worktree the tool has changed  *)
(*   SpecExecutor   the three worker batches of one iteration             *)
(*   SpecRun        run_swarm, the control loop                            *)
(*   SpecResolve    resolve_spec, call after call on one repository        *)
(*   SpecRoute      classify_and_route on every bounded gate result        *)
(***************************************************************************)
EXTENDS Integers, Sequences, FiniteSets, TLC

VARIABLES
    m_results,      \* merge_expert_results: the `results` argument
    m_max,          \* merge_expert_results: the `max_diff_lines` argument
    m_pc,           \* merge_expert_results: "call" | "loop" | "done"
    m_todo,         \* the sorted results the for loop has not visited yet
    m_acc,          \* the locals applied/skipped/conflicts/touched_files/diff_lines
    m_outcome,      \* the returned IntegrationOutcome (NoOutcome before the return)
    s_args,         \* _resolve_selection: scan result, goal, max_experts, planner flag
    s_pc,           \* _resolve_selection: "call" | "planner" | "done" | "raised"
    s_selected,     \* what select_experts_deterministic returned
    s_planner,      \* what the planner subprocess did (NoPlanner before it ran)
    s_final,        \* the roster _resolve_selection returns
    s_note,         \* the planner_note _resolve_selection returns
    a_role,         \* _enforce_allowlist: the role whose allowed_paths apply
    a_pc,           \* "tool_done" | "enforced"
    a_worktree,     \* the tracked files the worktree differs in from its base
    a_changed,      \* the changed-file list _enforce_allowlist returns
    a_blocked,      \* the blocked list _enforce_allowlist returns
    e_dry,          \* run_swarm: dry_run
    e_roster,       \* run_swarm: routed_experts of the iteration
    e_phase,        \* "pre" | "mid" | "post" | "merge" | "aborted"
    e_call,         \* where asyncio.run(execute_assignments(...)) stands
    e_workers,      \* the _execute_one tasks of the current batch
    e_results,      \* what execute_assignments returned, per batch
    e_merge_input,  \* the `results` run_swarm hands to merge_expert_results
    e_iter,         \* `iteration` of run_swarm's loop while the batches run
    run,            \* run_swarm: its arguments, its locals and where it stands
    rs_fs,          \* resolve_spec: the repository, path -> modification time
    rs_clock,       \* index of the value utc_timestamp() returns now
    rs_previous,    \* the call of resolve_spec before the last one
    rs_last,        \* the last call of resolve_spec
    rt_call,        \* classify_and_route: the arguments of the call
    rt_routing      \* classify_and_route: the GateRouting returned

mergeVars == <<m_results, m_max, m_pc, m_todo, m_acc, m_outcome>>
selVars == <<s_args, s_pc, s_selected, s_planner, s_final, s_note>>

allowVars == <<a_role, a_pc, a_worktree, a_changed, a_blocked>>

execVars ==
    <<e_dry, e_roster, e_phase, e_call, e_workers, e_results, e_merge_input,
      e_iter>>

resolveVars == <<rs_fs, rs_clock, rs_previous, rs_last>>

routeVars == <<rt_call, rt_routing>>

vars == <<mergeVars, selVars, allowVars, execVars, run, resolveVars, routeVars>>

notMergeVars == <<selVars, allowVars, execVars, run, resolveVars, routeVars>>
notSelVars == <<mergeVars, allowVars, execVars, run, resolveVars, routeVars>>
notAllowVars == <<mergeVars, selVars, execVars, run, resolveVars, routeVars>>
notExecVars == <<mergeVars, selVars, allowVars, run, resolveVars, routeVars>>
notRunVars == <<mergeVars, selVars, allowVars, execVars, resolveVars, routeVars>>
notResolveVars == <<mergeVars, selVars, allowVars, execVars, run, routeVars>>
notRouteVars == <<mergeVars, selVars, allowVars, execVars, run, resolveVars>>

(***************************************************************************)
(* Bounds of the model.                                                    *)
(***************************************************************************)
MaxResults == 3
MaxPlannerNames == 2
MaxOptionalWorkers == 1
MaxBatch == MaxOptionalWorkers + 1
MaxIterations == 2
MaxMtime == 2
MaxSteps == 2

(***************************************************************************)
(* models.py / policy.py: the roles.                                       *)
(***************************************************************************)
required_experts == <<"SecurityExpert", "TestingExpert">>

_OPTIONAL_EXPERT_ORDER ==
    <<"BackendExpert", "FrontendExpert", "DBExpert", "DevOpsExpert", "DocsExpert">>

RECURSIVE SeqToSet(_)
SeqToSet(s) == IF s = <<>> THEN {} ELSE {Head(s)} \cup SeqToSet(Tail(s))

AllExperts == SeqToSet(required_experts) \cup SeqToSet(_OPTIONAL_EXPERT_ORDER)

\* Python's str ordering of the role names (the sort key of the Integrator and
\* of execute_assignments): position in this list.
ExpertSortOrder ==
    <<"BackendExpert", "DBExpert", "DevOpsExpert", "DocsExpert",
      "FrontendExpert", "SecurityExpert", "TestingExpert">>

ExpertRank(e) == CHOOSE i \in 1..Len(ExpertSortOrder) : ExpertSortOrder[i] = e

(***************************************************************************)
(* integrator.py: merge_expert_results.                                    *)
(***************************************************************************)

\* An ExpertResult as the Integrator reads it: patch is "patch_path is set".
ExpertResult(e, st, files, patch, n) ==
    [expert |-> e, status |-> st, changed_files |-> files,
     patch |-> patch, diff_line_count |-> n]

InsertLast(r, s) == Append(s, r)

\* sorted(results, key=lambda item: item.expert): a stable sort by role name.
InsertByExpert(r, s) ==
    LET k == Cardinality({i \in 1..Len(s) :
                            ExpertRank(s[i].expert) <= ExpertRank(r.expert)})
    IN  SubSeq(s, 1, k) \o <<r>> \o SubSeq(s, k + 1, Len(s))

RECURSIVE SortedByExpert(_)
SortedByExpert(s) ==
    IF s = <<>> THEN <<>>
    ELSE InsertByExpert(s[Len(s)], SortedByExpert(SubSeq(s, 1, Len(s) - 1)))

\* The locals of merge_expert_results before the loop.  `log` is history: for
\* each result the loop has visited, in visiting order, what the body did
\* with it ("skipped", "overlap", "apply_failed" or "applied").
MergeStart ==
    [applied |-> <<>>, skipped |-> <<>>, conflicts |-> <<>>,
     touched_files |-> {}, diff_lines |-> 0, log |-> <<>>]

MergeConflict(e, reason, detail, files) ==
    [expert |-> e, reason |-> reason, detail |-> detail, files |-> files]

Visited(result, fate) == [result |-> result, fate |-> fate]

\* Whether the loop body reaches apply_patch(result) for this result.
ReachesApplyNoOverlapCheck(acc, result) ==
    /\ result.status = "pass"
    /\ result.patch /\ result.changed_files # {}

ReachesApply(acc, result) ==
    /\ result.status = "pass"
    /\ result.patch /\ result.changed_files # {}
    /\ result.changed_files \cap acc.touched_files = {}

ApplyFailedButCounted(acc, result, detail) ==
    [acc EXCEPT !.conflicts =
            Append(@, MergeConflict(result.expert, "apply_failed", detail,
                        result.changed_files)),
                !.touched_files = @ \cup result.changed_files,
                !.diff_lines = @ + result.diff_line_count,
                !.log = Append(@, Visited(result, "apply_failed"))]

\* Lines 45-53: apply_patch returned (False, detail).
ApplyFailed(acc, result, detail) ==
    [acc EXCEPT !.conflicts =
            Append(@, MergeConflict(result.expert, "apply_failed", detail,
                        result.changed_files)),
                !.log = Append(@, Visited(result, "apply_failed"))]

SkipsFailedOnly(result) == result.status # "pass"

\* Lines 26-31: the two tests that skip a result.
SkipsResult(result) ==
    \/ result.status # "pass"
    \/ ~result.patch \/ result.changed_files = {}

\* One pass through the loop body for `result`; ok/detail is what apply_patch
\* returns when the body reaches it.
MergeIterate(acc, result, ok, detail) ==
    IF SkipsResult(result)
    THEN [acc EXCEPT !.skipped = Append(@, result.expert),
                     !.log = Append(@, Visited(result, "skipped"))]
    ELSE IF ~ReachesApply(acc, result)
    THEN [acc EXCEPT !.conflicts =
            Append(@, MergeConflict(result.expert, "overlapping_changes", "",
                        result.changed_files \cap acc.touched_files)),
                     !.log = Append(@, Visited(result, "overlap"))]
    ELSE IF ~ok
    THEN ApplyFailed(acc, result, detail)
    ELSE [acc EXCEPT !.applied = Append(@, result.expert),
                     !.touched_files = @ \cup result.changed_files,
                     !.diff_lines = @ + result.diff_line_count,
                     !.log = Append(@, Visited(result, "applied"))]

OverBudgetInclusive(total, max) == total >= max

OverBudget(total, max) == total > max

\* The status computed after the loop.
MergeStatus(acc, max) ==
    IF OverBudget(acc.diff_lines, max) THEN "fail"
    ELSE IF acc.conflicts = <<>> THEN "pass" ELSE "conflict"

IntegrationOutcome(acc, max) ==
    [status |-> MergeStatus(acc, max), applied |-> acc.applied,
     conflicts |-> acc.conflicts, skipped |-> acc.skipped,
     diff_lines |-> acc.diff_lines]

NoOutcome == [status |-> "none"]

\* The variables of merge_expert_results while no call is modelled.
MergeIdle ==
    /\ m_results = <<>>
    /\ m_max = 0
    /\ m_pc = "idle"
    /\ m_todo = <<>>
    /\ m_acc = MergeStart
    /\ m_outcome = NoOutcome

(***************************************************************************)
(* selection.py: select_experts_deterministic, planner_augment_experts;    *)
(* runner.py: _resolve_selection.                                          *)
(***************************************************************************)
Min(a, b) == IF a < b THEN a ELSE b
Max(a, b) == IF a > b THEN a ELSE b

\* Python's s[:n] for a list s and an integer n.
PyPrefix(s, n) ==
    IF n >= 0 THEN SubSeq(s, 1, Min(n, Len(s)))
    ELSE SubSeq(s, 1, Max(Len(s) + n, 0))

InSeq(x, s) == \E i \in 1..Len(s) : s[i] = x

\* The loop "for x in xs: if x not in out: out.append(x)", continuing `out`.
RECURSIVE AppendNew(_, _)
AppendNew(out, xs) ==
    IF xs = <<>> THEN out
    ELSE AppendNew(IF InSeq(Head(xs), out) THEN out ELSE Append(out, Head(xs)),
                   Tail(xs))

\* The loop "for x in order: if x in wanted and x not in out: out.append(x)".
RECURSIVE AppendWanted(_, _, _)
AppendWanted(out, order, wanted) ==
    IF order = <<>> THEN out
    ELSE AppendWanted(IF Head(order) \in wanted /\ ~InSeq(Head(order), out)
                      THEN Append(out, Head(order)) ELSE out,
                      Tail(order), wanted)

DocsGoalTokens == {"docs", "documentation", "readme", "guide", "changelog"}

\* goal: the set of words of the lower-cased goal text.
_include_docs_from_goal(goal) == goal \cap DocsGoalTokens # {}

\* The roles select_experts_deterministic appends to `selected` for a scan.
ScanSelected(scan, goal) ==
    SeqToSet(required_experts)
    \cup (IF scan.backend THEN {"BackendExpert"} ELSE {})
    \cup (IF scan.frontend THEN {"FrontendExpert"} ELSE {})
    \cup (IF scan.db THEN {"DBExpert"} ELSE {})
    \cup (IF scan.devops THEN {"DevOpsExpert"} ELSE {})
    \cup (IF scan.docs /\ _include_docs_from_goal(goal) THEN {"DocsExpert"} ELSE {})

RaisedMaxUnchecked(max_experts) == max_experts

\* "if max_experts < len(required_experts()): max_experts = len(required_experts())"
RaisedMax(max_experts) ==
    IF max_experts < Len(required_experts) THEN Len(required_experts) ELSE max_experts

select_experts_deterministic(scan, goal, max_experts) ==
    PyPrefix(AppendWanted(<<>>, required_experts \o _OPTIONAL_EXPERT_ORDER,
                          ScanSelected(scan, goal)),
             RaisedMax(max_experts))

\* What the planner subprocess can do.  kind "exit": a non-zero exit code;
\* "raise": subprocess.run raised (the binary cannot be started, the timeout
\* expired); "stdout": exit 0 with a payload, which _extract_json_blob turns
\* into no object ("none"), an empty object ("empty"), an object without
\* add_experts ("no_key"), one whose add_experts is no list ("not_list"), or
\* one with the list `names` ("list").
PlannerNames ==
    {"BackendExpert", "DocsExpert", "DBExpert", "SecurityExpert", "QAExpert"}

PlannerNameLists == UNION {[1..n -> PlannerNames] : n \in 0..MaxPlannerNames}

PlannerResponses ==
    {[kind |-> "exit", code |-> 1, payload |-> "none", names |-> <<>>],
     [kind |-> "raise", code |-> 0, payload |-> "none", names |-> <<>>]}
    \cup {[kind |-> "stdout", code |-> 0, payload |-> pl, names |-> <<>>] :
            pl \in {"none", "empty", "no_key", "not_list"}}
    \cup {[kind |-> "stdout", code |-> 0, payload |-> "list", names |-> ns] :
            ns \in PlannerNameLists}

NoPlanner == [kind |-> "not_run"]

RECURSIVE AllowedInOrder(_)
AllowedInOrder(names) ==
    IF names = <<>> THEN <<>>
    ELSE (IF Head(names) \in SeqToSet(_OPTIONAL_EXPERT_ORDER)
          THEN <<Head(names)>> ELSE <<>>) \o AllowedInOrder(Tail(names))

planner_augment_in_planner_order(current, resp) ==
    IF resp.kind = "exit"
    THEN [experts |-> current, note |-> "planner_failed_exit"]
    ELSE IF resp.payload \in {"none", "empty"}
    THEN [experts |-> current, note |-> "planner_invalid_json"]
    ELSE IF resp.payload = "not_list"
    THEN [experts |-> current, note |-> "planner_invalid_schema"]
    ELSE [experts |-> AppendNew(current,
                        AllowedInOrder(IF resp.payload = "no_key"
                                       THEN <<>> ELSE resp.names)),
          note |-> "none"]

\* planner_augment_experts after the subprocess returned `resp` (kind is not
\* "raise"): the pair (roster, note).
planner_augment_experts(current, resp) ==
    IF resp.kind = "exit"
    THEN [experts |-> current, note |-> "planner_failed_exit"]
    ELSE IF resp.payload \in {"none", "empty"}
    THEN [experts |-> current, note |-> "planner_invalid_json"]
    ELSE IF resp.payload = "not_list"
    THEN [experts |-> current, note |-> "planner_invalid_schema"]
    ELSE LET additions_raw == IF resp.payload = "no_key" THEN <<>> ELSE resp.names
             additions == {n \in SeqToSet(additions_raw) :
                             n \in SeqToSet(_OPTIONAL_EXPERT_ORDER) /\ n \in AllExperts}
         IN  [experts |-> AppendWanted(current, _OPTIONAL_EXPERT_ORDER, additions),
              note |-> "none"]

\* _resolve_selection after planner_augment_experts returned `aug`.
ResolveFinal(aug, max_experts) ==
    PyPrefix(AppendNew(<<>>, required_experts \o aug.experts),
             Max(max_experts, Len(required_experts)))

\* The variables of _resolve_selection while no call is modelled.
SelectionIdle ==
    /\ s_args = [scan |-> [backend |-> FALSE, frontend |-> FALSE, db |-> FALSE,
                           devops |-> FALSE, docs |-> FALSE],
                 goal |-> {}, max_experts |-> 0, planner_augmentation |-> FALSE]
    /\ s_pc = "idle"
    /\ s_selected = <<>>
    /\ s_planner = NoPlanner
    /\ s_final = <<>>
    /\ s_note = "none"

(***************************************************************************)
(* policy.py: the deny-list and the roles' allowed paths; executor.py:     *)
(* _matches_any, _allowed_file, _git_changed_files, _enforce_allowlist.    *)
(* A path or a glob is the sequence of its characters; "U+00E9" stands for *)
(* one non-ASCII character.                                                *)
(***************************************************************************)
GLOBAL_DENY_PATTERNS ==
    { <<".", "g", "i", "t", "h", "u", "b", "/", "w", "o", "r", "k", "f", "l", "o", "w", "s", "/", "*", "*">>,
      <<"*", "*", "/", ".", "e", "n", "v">>,
      <<"*", "*", "/", ".", "e", "n", "v", ".", "*">>,
      <<"*", "*", "/", "s", "e", "c", "r", "e", "t", "s", "/", "*", "*">>,
      <<"*", "*", "/", "*", "s", "e", "c", "r", "e", "t", "*">> }


EXPERT_ALLOWED_PATHS ==
    [ SecurityExpert |->
        { <<"s", "w", "a", "r", "m", "_", "s", "k", "i", "l", "l", "s", "/", "*", "*">>,
          <<"s", "k", "i", "l", "l", "s", "/", "*", "*">>,
          <<"t", "e", "m", "p", "l", "a", "t", "e", "s", "/", "*", "*">>,
          <<"d", "o", "c", "s", "/", "*", "*">>,
          <<"s", "c", "r", "i", "p", "t", "s", "/", "*", "*">>,
          <<"t", "e", "s", "t", "s", "/", "*", "*">>,
          <<"*", ".", "m", "d">> },
      TestingExpert |->
        { <<"t", "e", "s", "t", "s", "/", "*", "*">>,
          <<"s", "w", "a", "r", "m", "_", "s", "k", "i", "l", "l", "s", "/", "*", "*">>,
          <<"s", "c", "r", "i", "p", "t", "s", "/", "*", "*">>,
          <<"d", "o", "c", "s", "/", "*", "*">>,
          <<"t", "e", "m", "p", "l", "a", "t", "e", "s", "/", "*", "*">> },
      BackendExpert |->
        { <<"s", "w", "a", "r", "m", "_", "s", "k", "i", "l", "l", "s", "/", "*", "*">>,
          <<"s", "k", "i", "l", "l", "s", "/", "*", "*">>,
          <<"t", "e", "m", "p", "l", "a", "t", "e", "s", "/", "*", "*">>,
          <<"a", "p", "p", "/", "*", "*">>,
          <<"a", "p", "i", "/", "*", "*">>,
          <<"s", "e", "r", "v", "e", "r", "/", "*", "*">>,
          <<"b", "a", "c", "k", "e", "n", "d", "/", "*", "*">>,
          <<"s", "c", "r", "i", "p", "t", "s", "/", "*", "*">> },
      FrontendExpert |->
        { <<"t", "e", "m", "p", "l", "a", "t", "e", "s", "/", "*", "*">>,
          <<"f", "r", "o", "n", "t", "e", "n", "d", "/", "*", "*">>,
          <<"a", "p", "p", "/", "*", "*">>,
          <<"p", "a", "g", "e", "s", "/", "*", "*">>,
          <<"c", "o", "m", "p", "o", "n", "e", "n", "t", "s", "/", "*", "*">>,
          <<"s", "r", "c", "/", "*", "*">>,
          <<"p", "u", "b", "l", "i", "c", "/", "*", "*">>,
          <<"s", "t", "y", "l", "e", "s", "/", "*", "*">> },
      DBExpert |->
        { <<"*", "*", "/", "m", "i", "g", "r", "a", "t", "i", "o", "n", "s", "/", "*", "*">>,
          <<"*", "*", "/", "m", "o", "d", "e", "l", "s", "/", "*", "*">>,
          <<"*", "*", "/", "s", "c", "h", "e", "m", "a", ".", "p", "r", "i", "s", "m", "a">>,
          <<"*", "*", "/", "*", ".", "s", "q", "l">>,
          <<"*", "*", "/", "a", "l", "e", "m", "b", "i", "c", "/", "*", "*">>,
          <<"*", "*", "/", "d", "b", "/", "*", "*">>,
          <<"a", "r", "t", "i", "f", "a", "c", "t", "s", "/", "c", "o", "n", "t", "r", "a", "c", "t", "s", "/", "*", "*">> },
      DevOpsExpert |->
        { <<"D", "o", "c", "k", "e", "r", "f", "i", "l", "e">>,
          <<"D", "o", "c", "k", "e", "r", "f", "i", "l", "e", ".", "*">>,
          <<"d", "o", "c", "k", "e", "r", "/", "*", "*">>,
          <<"k", "8", "s", "/", "*", "*">>,
          <<"h", "e", "l", "m", "/", "*", "*">>,
          <<"s", "c", "r", "i", "p", "t", "s", "/", "*", "*">>,
          <<"M", "a", "k", "e", "f", "i", "l", "e">>,
          <<"*", ".", "y", "m", "l">>,
          <<"*", ".", "y", "a", "m", "l">> },
      DocsExpert |->
        { <<"d", "o", "c", "s", "/", "*", "*">>,
          <<"R", "E", "A", "D", "M", "E", ".", "m", "d">>,
          <<"C", "H", "A", "N", "G", "E", "L", "O", "G", ".", "m", "d">>,
          <<"e", "x", "a", "m", "p", "l", "e", "s", "/", "s", "p", "e", "c", "s", "/", "*", "*">>,
          <<"s", "c", "r", "i", "p", "t", "s", "/", "*", "*">>,
          <<"*", ".", "m", "d">> } ]


\* fnmatch.fnmatch(name, pat) for patterns of literals, "*" and "?": the
\* positions of `name` the pattern can have consumed after each pattern
\* character ("*" is the regular expression ".*", so it also crosses "/").
GlobStep(reached, c, name) ==
    IF c = "*" THEN {j \in 0..Len(name) : \E i \in reached : i <= j}
    ELSE IF c = "?" THEN {i + 1 : i \in {k \in reached : k < Len(name)}}
    ELSE {i + 1 : i \in {k \in reached : k < Len(name) /\ name[k + 1] = c}}

RECURSIVE GlobReach(_, _, _)
GlobReach(reached, pat, name) ==
    IF pat = <<>> THEN reached
    ELSE GlobReach(GlobStep(reached, Head(pat), name), Tail(pat), name)

fnmatch(name, pat) == Len(name) \in GlobReach({0}, pat, name)

\* str.replace("\\", "/")
ReplaceBackslash(path) ==
    [i \in 1..Len(path) |-> IF path[i] = "\\" THEN "/" ELSE path[i]]

_matches_any(path, patterns) ==
    \E pattern \in patterns : fnmatch(ReplaceBackslash(path), pattern)

_allowed_file_allow_first(path, allowed_patterns) ==
    _matches_any(path, allowed_patterns)

_allowed_file(path, allowed_patterns) ==
    IF _matches_any(path, GLOBAL_DENY_PATTERNS) THEN FALSE
    ELSE _matches_any(path, allowed_patterns)

\* How `git diff --name-only` prints a path (core.quotePath, the default): a
\* path with a non-ASCII byte, a double quote or a backslash is printed in
\* double quotes with those characters escaped, the two bytes of U+00E9 as
\* \303\251.
GitQuoteChar(c) ==
    IF c = "U+00E9" THEN <<"\\", "3", "0", "3", "\\", "2", "5", "1">>
    ELSE IF c = "\"" THEN <<"\\", "\"">>
    ELSE IF c = "\\" THEN <<"\\", "\\">>
    ELSE <<c>>

RECURSIVE GitQuoteChars(_)
GitQuoteChars(path) ==
    IF path = <<>> THEN <<>>
    ELSE GitQuoteChar(Head(path)) \o GitQuoteChars(Tail(path))

GitDiffName(path) ==
    IF \E i \in 1..Len(path) : path[i] \in {"U+00E9", "\"", "\\"}
    THEN <<"\"">> \o GitQuoteChars(path) \o <<"\"">>
    ELSE path

\* _git_changed_files: the printed names, backslashes replaced, as a set.
_git_changed_files(worktree) ==
    {ReplaceBackslash(GitDiffName(path)) : path \in worktree}

\* `git checkout -- rel` for each rel: the tracked file of that very name is
\* restored; a name that is no tracked path restores nothing.
GitCheckoutAll(worktree, rels) == worktree \ rels

_enforce_allowlist(worktree, allowed_patterns) ==
    LET changed == _git_changed_files(worktree)
        blocked == {rel \in changed : ~_allowed_file(rel, allowed_patterns)}
        after == GitCheckoutAll(worktree, blocked)
    IN  [worktree |-> after,
         changed_files |-> _git_changed_files(after),
         blocked_files |-> blocked]

\* The variables of _enforce_allowlist while no call is modelled.
AllowlistIdle ==
    /\ a_role = "none"
    /\ a_pc = "idle"
    /\ a_worktree = {}
    /\ a_changed = {}
    /\ a_blocked = {}

(***************************************************************************)
(* executor.py: _run_codex, _execute_one, execute_assignments, as run_swarm *)
(* calls them: asyncio.run(execute_assignments(...)) three times per       *)
(* iteration, then merge_expert_results on the concatenated results.       *)
(* A worker is one _execute_one task; its steps are the parts of the       *)
(* coroutine between two suspension points.                                *)
(***************************************************************************)
NoResult == [expert |-> "none"]

\* The ExpertResult _execute_one returns, with metadata["return_code"]
\* (-1: the metadata has no return code).
WorkerResult(e, st, files, patch, n, code) ==
    [expert |-> e, status |-> st, changed_files |-> files,
     patch |-> patch, diff_line_count |-> n, return_code |-> code]

\* The task of one assignment before its first step.
\*   pc       "new" | "running" | "killing" | "returned" | "raised" | "cancelled"
\*   proc     the tool's process: "none" | "alive" | "killed" | "exited"
\*   attempts number of create_subprocess_exec calls
\*   exits    what each _invoke returned, in order: "zero" | "nonzero" |
\*            "unsupported_flag" | "timeout"
\*   failure  what went wrong first: "none" | "alloc" | "launch" | "exit" |
\*            "timeout" | "decode"
\*   exc      the exception the task ended with, "none" if it has not
\*   worktree whether the worker's git worktree is allocated
NewWorker(role) ==
    [role |-> role, pc |-> "new", proc |-> "none", attempts |-> 0,
     exits |-> <<>>, failure |-> "none", exc |-> "none", worktree |-> FALSE,
     result |-> NoResult]

FirstFailure(w, f) == IF w.failure = "none" THEN f ELSE w.failure

\* dry_run: the simulated result, no worktree, no process.
DryRunReturn(w) ==
    [w EXCEPT !.pc = "returned",
              !.result = WorkerResult(w.role, "pass", {}, TRUE, 0, 0 - 1)]

\* _prepare_worktree returned (False, detail).
WorktreeError(w) ==
    [w EXCEPT !.pc = "returned", !.failure = "alloc",
              !.result = WorkerResult(w.role, "fail", {}, FALSE, 0, 0 - 1)]

\* _prepare_worktree returned (True, "ok").
WorktreeAdded(w) == [w EXCEPT !.worktree = TRUE]

\* create_subprocess_exec started the tool; the task waits in communicate().
Launched(w) ==
    [w EXCEPT !.pc = "running", !.proc = "alive", !.attempts = @ + 1]

\* create_subprocess_exec raised (the tool cannot be executed): nothing in
\* _invoke, _run_codex or _execute_one catches it; the finally clause runs.
LaunchRaised(w) ==
    [w EXCEPT !.pc = "raised", !.exc = "OSError", !.attempts = @ + 1,
              !.failure = FirstFailure(w, "launch"), !.worktree = FALSE]

TimeoutEscapes(w) ==
    [w EXCEPT !.pc = "raised", !.exc = "TimeoutError",
              !.failure = FirstFailure(w, "timeout"), !.worktree = FALSE]

\* wait_for raised TimeoutError: except clause, proc.kill(), await proc.wait().
TimeoutCaught(w) ==
    [w EXCEPT !.pc = "killing", !.proc = "killed",
              !.failure = FirstFailure(w, "timeout")]

\* _invoke returned: `outcome` is its return code and stderr.
InvokeReturned(w, outcome) == [w EXCEPT !.exits = Append(@, outcome)]

FallbackEveryTime(w, outcome) == outcome = "unsupported_flag"

\* Line 121, which _run_codex passes once, after the first _invoke.
NeedsFallback(w, outcome) ==
    outcome = "unsupported_flag" /\ Len(w.exits) = 0

\* Lines 253-297 after _run_codex returned `code`: the result, then finally.
ToolChanges == {{}, {"swarm_skills/a.py"}}

AfterRunCodex(w, code, files) ==
    [w EXCEPT !.pc = "returned",
              !.proc = IF @ = "alive" THEN "exited" ELSE @,
              !.failure = IF code \notin {0, 124} THEN FirstFailure(w, "exit")
                          ELSE @,
              !.worktree = FALSE,
              !.result = WorkerResult(w.role,
                                      IF code = 0 THEN "pass" ELSE "fail",
                                      files, TRUE,
                                      IF files = {} THEN 0 ELSE 50, code)]

\* Lines 253-254 raised: subprocess.run(text=True) cannot decode git's
\* output (UnicodeDecodeError); the finally clause runs.
AfterRunCodexRaised(w) ==
    [w EXCEPT !.pc = "raised", !.exc = "UnicodeDecodeError",
              !.proc = IF @ = "alive" THEN "exited" ELSE @,
              !.failure = FirstFailure(w, "decode"), !.worktree = FALSE]

CancelledLeaksWorktree(w) ==
    [w EXCEPT !.pc = "cancelled", !.exc = "CancelledError"]

\* asyncio.run cancels a pending task: CancelledError at its await, which
\* only the finally clause of _execute_one sees.
Cancelled(w) ==
    [w EXCEPT !.pc = "cancelled", !.exc = "CancelledError",
              !.worktree = FALSE]

Finished(w) == w.pc \in {"returned", "raised", "cancelled"}

BatchUnderWay(call) == call \in {"gathering", "returned"}

\* asyncio.run(execute_assignments(...)) has returned to run_swarm.
BatchOver(call) == call = "returned"

\* `await asyncio.gather(*tasks)` returns: every task has returned.
AllReturned(ws) == \A i \in 1..Len(ws) : ws[i].pc = "returned"

\* run_experts of run_swarm: the roster without SecurityExpert.
RECURSIVE Without(_, _)
Without(s, x) ==
    IF s = <<>> THEN <<>>
    ELSE IF Head(s) = x THEN Without(Tail(s), x)
    ELSE <<Head(s)>> \o Without(Tail(s), x)

\* The roles of the batch run_swarm hands to execute_assignments in a phase.
BatchRoles(phase, roster) ==
    IF phase = "mid" THEN Without(roster, "SecurityExpert")
    ELSE <<"SecurityExpert">>

NewBatch(phase, roster) ==
    [i \in 1..Len(BatchRoles(phase, roster)) |->
        NewWorker(BatchRoles(phase, roster)[i])]

\* The decimal digits of n, and f"{n:02d}".
RECURSIVE Digits(_)
Digits(n) == IF n < 10 THEN <<n>> ELSE Digits(n \div 10) \o <<n % 10>>

Pad2(n) == IF n < 10 THEN <<0, n>> ELSE Digits(n)

BatchIdNoIteration(iteration, phase) ==
    <<"iter">> \o
    <<IF phase = "pre" THEN "_security_pre"
      ELSE IF phase = "mid" THEN "_parallel" ELSE "_security_final">>

\* The batch_id run_swarm passes for a phase of an iteration, as the
\* pieces of the formatted string.
BatchId(iteration, phase) ==
    <<"iter">> \o Pad2(iteration) \o
    <<IF phase = "pre" THEN "_security_pre"
      ELSE IF phase = "mid" THEN "_parallel" ELSE "_security_final">>

\* assignment.expert.lower().
ExpertSlug(role) ==
    CASE role = "SecurityExpert" -> "securityexpert"
      [] role = "TestingExpert" -> "testingexpert"
      [] role = "BackendExpert" -> "backendexpert"
      [] role = "FrontendExpert" -> "frontendexpert"
      [] role = "DBExpert" -> "dbexpert"
      [] role = "DevOpsExpert" -> "devopsexpert"
      [] role = "DocsExpert" -> "docsexpert"

\* The name of a worker's worktree directory: f"{batch_id}-{expert_slug}".
WorktreeDir(batch_id, role) == batch_id \o <<"-", ExpertSlug(role)>>

NextPhase(phase) ==
    IF phase = "pre" THEN "mid" ELSE IF phase = "mid" THEN "post" ELSE "merge"

RECURSIVE ResultsOf(_)
ResultsOf(ws) ==
    IF ws = <<>> THEN <<>> ELSE <<Head(ws).result>> \o ResultsOf(Tail(ws))

NoBatchResults == [pre |-> <<>>, mid |-> <<>>, post |-> <<>>]

\* The variables of the executor while no batch is modelled.
ExecutorIdle ==
    /\ e_dry = FALSE
    /\ e_roster = <<>>
    /\ e_phase = "idle"
    /\ e_call = "idle"
    /\ e_workers = <<>>
    /\ e_results = NoBatchResults
    /\ e_merge_input = <<>>
    /\ e_iter = 0

(***************************************************************************)
(* routing.py: classify_and_route.  A gate payload's steps are a sequence  *)
(* of rows [step_name, status]; the report text is the set of the router's *)
(* keywords that occur in it.                                              *)
(***************************************************************************)
NoStepExperts(step_name) == <<>>

_STEP_TO_EXPERTS(step_name) ==
    CASE step_name = "template_select" -> <<"DevOpsExpert", "BackendExpert">>
      [] step_name = "scaffold_verify" -> <<"DevOpsExpert", "BackendExpert">>
      [] step_name = "plan_to_contracts" -> <<"BackendExpert", "DBExpert">>
      [] step_name = "backend_build" -> <<"BackendExpert", "DBExpert">>
      [] step_name = "frontend_bind" -> <<"FrontendExpert">>
      [] step_name = "fullstack_test_harness" ->
            <<"TestingExpert", "BackendExpert", "FrontendExpert", "DBExpert">>
      [] OTHER -> <<>>

_KEYWORD_TO_EXPERT ==
    <<<<"frontend", "FrontendExpert">>, <<"ui", "FrontendExpert">>,
      <<"route", "BackendExpert">>, <<"db", "DBExpert">>,
      <<"migration", "DBExpert">>, <<"docker", "DevOpsExpert">>,
      <<"k8s", "DevOpsExpert">>, <<"docs", "DocsExpert">>>>

\* The loop over the rows of `steps`: (failing_steps, routed).
RECURSIVE RouteSteps(_, _)
RouteSteps(acc, steps) ==
    IF steps = <<>> THEN acc
    ELSE LET row == Head(steps)
         IN  RouteSteps(
                IF row.status = "fail" /\ row.step_name # ""
                THEN [failing_steps |-> Append(acc.failing_steps, row.step_name),
                      routed |-> AppendNew(acc.routed,
                                           _STEP_TO_EXPERTS(row.step_name))]
                ELSE acc,
                Tail(steps))

\* The loop over _KEYWORD_TO_EXPERT.
RECURSIVE RouteKeywords(_, _, _)
RouteKeywords(routed, pairs, text) ==
    IF pairs = <<>> THEN routed
    ELSE RouteKeywords(IF Head(pairs)[1] \in text
                       THEN AppendNew(routed, <<Head(pairs)[2]>>) ELSE routed,
                       Tail(pairs), text)

classify_and_route(steps, text, max_experts) ==
    LET by_step == RouteSteps([failing_steps |-> <<>>, routed |-> <<>>], steps)
        routed == RouteKeywords(by_step.routed, _KEYWORD_TO_EXPERT, text)
    IN  [reason |-> IF by_step.failing_steps = <<>> /\ routed = <<>>
                    THEN "unknown_failure" ELSE "pipeline_failure",
         failing_steps |-> SeqToSet(by_step.failing_steps),
         experts |-> PyPrefix(AppendNew(<<>>, required_experts \o routed),
                              RaisedMax(max_experts))]

NoRouteCall ==
    [made |-> FALSE, structured |-> FALSE, steps |-> <<>>, text |-> {},
     max_experts |-> 0]

\* Lines 39-41: the rows read from pipeline_result, none when it is no
\* dict (`structured` is isinstance(pipeline_result, dict)).
PipelineSteps(call) == IF call.structured THEN call.steps ELSE <<>>

NoRouting == [reason |-> "none", failing_steps |-> {}, experts |-> <<>>]

\* The variables of classify_and_route while no call is modelled.
RouteIdle ==
    /\ rt_call = NoRouteCall
    /\ rt_routing = NoRouting

(***************************************************************************)
(* runner.py: run_swarm.  `run` holds the arguments and the locals of one  *)
(* call; a worker batch and a merge are one step each here.                *)
(***************************************************************************)
RECURSIVE ConflictExperts(_)
ConflictExperts(conflicts) ==
    IF conflicts = <<>> THEN <<>>
    ELSE <<Head(conflicts).expert>> \o ConflictExperts(Tail(conflicts))

_lead_conflict_experts_sliced(conflicts, max_experts) ==
    PyPrefix(AppendNew(required_experts, ConflictExperts(conflicts)), max_experts)

_lead_conflict_experts(conflicts, max_experts) ==
    PyPrefix(AppendNew(required_experts, ConflictExperts(conflicts)),
             Max(max_experts, Len(required_experts)))

\* merge_expert_results as a whole: the loop over the sorted results, where
\* oks[k] is what apply_patch returns for the k-th result if it is reached.
RECURSIVE MergeLoopAll(_, _, _)
MergeLoopAll(acc, todo, oks) ==
    IF todo = <<>> THEN acc
    ELSE MergeLoopAll(MergeIterate(acc, Head(todo), Head(oks), "git apply failed"),
                      Tail(todo), Tail(oks))

merge_expert_results(results, max_diff_lines, oks) ==
    LET acc == MergeLoopAll(MergeStart, SortedByExpert(results), oks)
    IN  [outcome |-> IntegrationOutcome(acc, max_diff_lines),
         touched_files |-> acc.touched_files]

\* The integration worktree: `head` counts the commits made on its branch,
\* `dirty` are the files changed by patches applied and not committed.
NoIntegration == [exists |-> FALSE, head |-> 0, dirty |-> {}]

\* A gate result: `wrote` is whether the pipeline got as far as writing its
\* run directory under <workspace-root>/artifacts/pipeline.
NoGate == [status |-> "none", steps |-> <<>>, text |-> {}, wrote |-> FALSE]

\* _simulate_gate.
SimulatedGate ==
    [status |-> "pass",
     steps |-> <<[step_name |-> "simulated", status |-> "pass"]>>, text |-> {},
     wrote |-> FALSE]

\* The report _run_pipeline_gate reads back from the integration worktree.
GateReportFile == "artifacts/pipeline/latest/GateReport.md"

BatchBaseRefAfterMid(r) ==
    IF r.phase = "post" THEN r.base_ref + 1 ELSE r.base_ref

\* The base_ref argument of an execute_assignments call (lines 408, 422,
\* 436): the local base_ref.
BatchBaseRef(r) == r.base_ref

TimeBudgetNeverExceeded(r) == FALSE

\* Lines 385-386: elapsed > int(args.time_budget).
TimeBudgetExceeded(r) == r.over_time

IntegrationNeverFailed(outcome) == FALSE

\* Line 478.
IntegrationFailed(outcome) == outcome.status = "fail"

NextRosterFromRouter(conflicts, route_experts, max_experts) == route_experts

\* Lines 531-534: the roster of the next iteration.
NextRoster(conflicts, route_experts, max_experts) ==
    IF conflicts # <<>> THEN _lead_conflict_experts(conflicts, max_experts)
    ELSE route_experts

\* What run_swarm holds of its resolve_spec call between lines 308 and 328:
\* the --spec argument, whether that names no file, whether the call
\* raised, the mode and the candidates of its record, and whether it wrote
\* a generated spec.
NoResolution ==
    [made |-> FALSE, provided |-> "", not_a_file |-> FALSE, raised |-> FALSE,
     mode |-> "none", candidates |-> <<>>, generated |-> FALSE]

\* The locals of run_swarm at its first line; batch_bases are the base_ref
\* arguments of this iteration's execute_assignments calls, over_time is
\* whether time.monotonic() - run_started is beyond args.time_budget.
RunStart(args) ==
    [args |-> args, pc |-> "resolve", phase |-> "none", iteration |-> 0,
     max_iterations |-> 0, routed_experts |-> <<>>, roster_source |-> "none",
     planner_note |-> "none", all_results |-> <<>>,
     integration_outcome |-> NoOutcome, applied_to_integration |-> <<>>,
     integration |-> NoIntegration, base_ref |-> 0, gate |-> NoGate,
     iteration_records |-> <<>>, final_status |-> "none",
     spec_path |-> "none", experts |-> <<>>,
     summary |-> "none", exit_code |-> 0 - 1,
     batch_bases |-> <<>>, over_time |-> FALSE,
     resolution |-> NoResolution]

NoArgs ==
    [max_experts |-> 0, max_iterations |-> 0, autofix |-> FALSE,
     dry_run |-> FALSE]

\* The variables of run_swarm while no run is modelled.
RunIdle == run = [RunStart(NoArgs) EXCEPT !.pc = "idle"]

(***************************************************************************)
(* spec_resolution.py: discover_spec_candidates, choose_newest,            *)
(* generate_spec, resolve_spec.  The repository is a function from the     *)
(* paths below to the modification time of the file there (0: no file).    *)
(***************************************************************************)
\* The paths of the model, relative to the repository root, in the order of
\* Python's str comparison; T1 and T2 are two values of utc_timestamp().
SpecPathTable ==
    <<
     [path |-> "artifacts/flow_next_spec/T1/generated_spec.md",
      dir |-> "artifacts/flow_next_spec/T1",
      name |-> <<"g", "e", "n", "e", "r", "a", "t", "e", "d", "_", "s", "p", "e", "c", ".", "m", "d">>],
     [path |-> "artifacts/flow_next_spec/T2/generated_spec.md",
      dir |-> "artifacts/flow_next_spec/T2",
      name |-> <<"g", "e", "n", "e", "r", "a", "t", "e", "d", "_", "s", "p", "e", "c", ".", "m", "d">>],
     [path |-> "artifacts/flow_next_spec/latest/generated_spec.md",
      dir |-> "artifacts/flow_next_spec/latest",
      name |-> <<"g", "e", "n", "e", "r", "a", "t", "e", "d", "_", "s", "p", "e", "c", ".", "m", "d">>],
     [path |-> "docs/specs/b.md",
      dir |-> "docs/specs",
      name |-> <<"b", ".", "m", "d">>],
     [path |-> "examples/specs/a.md",
      dir |-> "examples/specs",
      name |-> <<"a", ".", "m", "d">>],
     [path |-> "notes/plan.md",
      dir |-> "notes",
      name |-> <<"p", "l", "a", "n", ".", "m", "d">>],
     [path |-> "spec.md",
      dir |-> "",
      name |-> <<"s", "p", "e", "c", ".", "m", "d">>]
    >>

SpecPaths == {SpecPathTable[i].path : i \in 1..Len(SpecPathTable)}

PathEntry(p) ==
    SpecPathTable[CHOOSE i \in 1..Len(SpecPathTable) : SpecPathTable[i].path = p]

\* Position in sorted(...) of path strings.
PathRank(p) == CHOOSE i \in 1..Len(SpecPathTable) : SpecPathTable[i].path = p

GenTimestamps == <<"T1", "T2">>

GeneratedSpecPath(ts) ==
    IF ts = "T1" THEN "artifacts/flow_next_spec/T1/generated_spec.md"
    ELSE "artifacts/flow_next_spec/T2/generated_spec.md"

LatestSpecPath == "artifacts/flow_next_spec/latest/generated_spec.md"

\* path.exists() and path.is_file()
IsFile(fs, p) == p \in SpecPaths /\ fs[p] > 0

\* _glob_files(root, dir + "/" + pattern), as a set (the caller sorts).
_glob_files(fs, dir, pattern) ==
    {p \in SpecPaths :
        IsFile(fs, p) /\ PathEntry(p).dir = dir /\ fnmatch(PathEntry(p).name, pattern)}

\* A set of paths as the list sorted by path.
RECURSIVE SortedPaths(_)
SortedPaths(ps) ==
    IF ps = {} THEN <<>>
    ELSE LET first == CHOOSE p \in ps : \A q \in ps : PathRank(p) <= PathRank(q)
         IN  <<first>> \o SortedPaths(ps \ {first})

discover_spec_candidates(fs) ==
    SortedPaths(
        _glob_files(fs, "artifacts/flow_next_spec/latest", <<"*", ".", "m", "d">>)
        \cup _glob_files(fs, "examples/specs", <<"*", ".", "m", "d">>)
        \cup _glob_files(fs, "docs/specs", <<"*", ".", "m", "d">>)
        \cup _glob_files(fs, "", <<"*", "s", "p", "e", "c", "*", ".", "m", "d">>)
        \cup _glob_files(fs, "", <<"*", "r", "e", "q", "u", "i", "r", "e", "m",
                                   "e", "n", "t", "s", "*", ".", "m", "d">>))

\* The sort key (-st_mtime_ns, path) of choose_newest: a before b.
OldestFirst(fs, a, b) ==
    \/ fs[a] < fs[b]
    \/ fs[a] = fs[b] /\ PathRank(a) <= PathRank(b)

NewestFirst(fs, a, b) ==
    \/ fs[a] > fs[b]
    \/ fs[a] = fs[b] /\ PathRank(a) <= PathRank(b)

choose_newest(fs, candidates) ==
    IF candidates = <<>> THEN "none"
    ELSE CHOOSE p \in SeqToSet(candidates) :
            \A q \in SeqToSet(candidates) : NewestFirst(fs, p, q)

WritesRunDirOnly(fs, ts, now) ==
    [fs EXCEPT ![GeneratedSpecPath(ts)] = now]

\* generate_spec: the spec in the run directory of timestamp ts and the
\* copy of that directory at latest (copytree keeps the modification time).
generate_spec(fs, ts, now) ==
    [fs EXCEPT ![GeneratedSpecPath(ts)] = now, ![LatestSpecPath] = now]

RecordTaggedDiscovered(provided, candidates, chosen, generated, mode) ==
    [provided_spec |-> provided, discovered_candidates |-> candidates,
     chosen_spec |-> chosen, generated_spec |-> generated, mode |-> "discovered"]

SpecResolutionRecord(provided, candidates, chosen, generated, mode) ==
    [provided_spec |-> provided, discovered_candidates |-> candidates,
     chosen_spec |-> chosen, generated_spec |-> generated, mode |-> mode]

NoRecord == SpecResolutionRecord("none", <<>>, "none", "none", "none")

\* resolve_spec(provided_spec, gen_if_missing) on the repository fs at time
\* ts: whether it raised, the record and the path it returned, and the
\* repository afterwards.  provided "" is no explicit path.
resolve_spec(fs, provided, gen_if_missing, ts, now) ==
    IF provided # ""
    THEN IF ~IsFile(fs, provided)
         THEN [raised |-> TRUE, record |-> NoRecord, path |-> "none", fs |-> fs]
         ELSE [raised |-> FALSE,
               record |-> SpecResolutionRecord(provided, <<>>, provided, "none",
                                               "provided"),
               path |-> provided, fs |-> fs]
    ELSE LET candidates == discover_spec_candidates(fs)
             chosen == choose_newest(fs, candidates)
         IN  IF chosen # "none"
             THEN [raised |-> FALSE,
                   record |-> SpecResolutionRecord("none", candidates, chosen,
                                                   "none", "discovered"),
                   path |-> chosen, fs |-> fs]
             ELSE IF gen_if_missing
             THEN [raised |-> FALSE,
                   record |-> SpecResolutionRecord("none", <<>>,
                                 GeneratedSpecPath(ts), GeneratedSpecPath(ts),
                                 "generated"),
                   path |-> GeneratedSpecPath(ts),
                   fs |-> generate_spec(fs, ts, now)]
             ELSE [raised |-> FALSE,
                   record |-> SpecResolutionRecord("none", <<>>, "none", "none",
                                                   "missing_error"),
                   path |-> "none", fs |-> fs]

EmptyRepo == [p \in SpecPaths |-> 0]

\* One call of resolve_spec: its arguments, the repository it ran on and
\* what it did.
ResolveCallRecord(provided, gen_if_missing, fs_before, result) ==
    [made |-> TRUE, provided |-> provided, gen_if_missing |-> gen_if_missing,
     fs_before |-> fs_before, raised |-> result.raised,
     record |-> result.record, path |-> result.path]

NoCall ==
    [made |-> FALSE, provided |-> "", gen_if_missing |-> FALSE,
     fs_before |-> EmptyRepo, raised |-> FALSE, record |-> NoRecord,
     path |-> "none"]

\* The variables of the spec resolver while no call is modelled.
ResolveIdle ==
    /\ rs_fs = EmptyRepo
    /\ rs_clock = 0
    /\ rs_previous = NoCall
    /\ rs_last = NoCall

(***************************************************************************)
(* SpecMerge: one call of merge_expert_results on every bounded input.     *)
(***************************************************************************)
MergeRoles == {"BackendExpert", "SecurityExpert", "TestingExpert"}
MergeFiles == {"swarm_skills/a.py", "swarm_skills/b.py"}
Budgets == {100}
ApplyDetails == {"error: patch does not apply"}

\* The results the call is tried on: a failed result, a passing result without
\* a patch file, a passing result without changed files, and passing results
\* that change one file or both, of 50 or 100 changed lines.
ResultShapes ==
    { <<"fail", {"swarm_skills/a.py"}, TRUE, 100>>,
      <<"pass", {"swarm_skills/a.py"}, FALSE, 50>>,
      <<"pass", {}, TRUE, 0>>,
      <<"pass", {"swarm_skills/a.py"}, TRUE, 50>>,
      <<"pass", {"swarm_skills/a.py"}, TRUE, 100>>,
      <<"pass", {"swarm_skills/b.py"}, TRUE, 50>>,
      <<"pass", MergeFiles, TRUE, 100>> }

ResultInputs ==
    {ExpertResult(e, s[1], s[2], s[3], s[4]) : e \in MergeRoles, s \in ResultShapes}

ResultLists == UNION {[1..n -> ResultInputs] : n \in 0..MaxResults}

InitMerge ==
    /\ SelectionIdle /\ AllowlistIdle /\ ExecutorIdle /\ RunIdle /\ ResolveIdle /\ RouteIdle
    /\ m_results \in ResultLists
    /\ m_max \in Budgets
    /\ m_pc = "call"
    /\ m_todo = <<>>
    /\ m_acc = MergeStart
    /\ m_outcome = NoOutcome

\* Entry: the locals are initialised and the results sorted.
MergeEnter ==
    /\ m_pc = "call"
    /\ m_todo' = SortedByExpert(m_results)
    /\ m_acc' = MergeStart
    /\ m_pc' = "loop"
    /\ UNCHANGED <<m_results, m_max, m_outcome, notMergeVars>>

\* One iteration of the for loop.
MergeLoop ==
    /\ m_pc = "loop"
    /\ m_todo # <<>>
    /\ \E ok \in BOOLEAN, detail \in ApplyDetails :
         /\ (~ReachesApply(m_acc, Head(m_todo)) => ok)
         /\ m_acc' = MergeIterate(m_acc, Head(m_todo), ok, detail)
    /\ m_todo' = Tail(m_todo)
    /\ UNCHANGED <<m_results, m_max, m_pc, m_outcome, notMergeVars>>

\* After the loop: the budget check and the return.
MergeReturn ==
    /\ m_pc = "loop"
    /\ m_todo = <<>>
    /\ m_outcome' = IntegrationOutcome(m_acc, m_max)
    /\ m_pc' = "done"
    /\ UNCHANGED <<m_results, m_max, m_todo, m_acc, notMergeVars>>

NextMerge == MergeEnter \/ MergeLoop \/ MergeReturn

SpecMerge == InitMerge /\ [][NextMerge]_vars

(***************************************************************************)
(* Properties of one call of merge_expert_results (SpecMerge).             *)
(***************************************************************************)
MergeDone == m_pc = "done"

LogIndices == 1..Len(m_acc.log)

WasHanded(i) == m_acc.log[i].fate \in {"applied", "apply_failed"}

WasApplied(i) == m_acc.log[i].fate = "applied"

FilesOf(i) == m_acc.log[i].result.changed_files

\* The files of the results applied before the loop visited the i-th result.
AppliedBefore(i) == UNION {FilesOf(k) : k \in {j \in 1..(i - 1) : WasApplied(j)}}

RECURSIVE AppliedTotal(_)
AppliedTotal(n) ==
    IF n = 0 THEN 0
    ELSE AppliedTotal(n - 1)
         + (IF WasApplied(n) THEN m_acc.log[n].result.diff_line_count ELSE 0)

\* A passing result that carries a patch file and changed files.
Applicable(i) ==
    /\ m_acc.log[i].result.status = "pass"
    /\ m_acc.log[i].result.patch
    /\ FilesOf(i) # {}

\* C1: in one call of merge_expert_results no file belongs to the changed
\* files of two different applied results, and a result whose changed files
\* overlap the files already applied in this pass is never handed to
\* apply_patch.
C1_NoFileAppliedTwice ==
    /\ \A i, j \in LogIndices :
         (i # j /\ WasApplied(i) /\ WasApplied(j)) => FilesOf(i) \cap FilesOf(j) = {}
    /\ \A i \in LogIndices :
         (FilesOf(i) \cap AppliedBefore(i) # {}) => ~WasHanded(i)

C1_Witness ==
    /\ MergeDone
    /\ \E i, j, k \in LogIndices :
         /\ i < j /\ j < k
         /\ WasApplied(i) /\ WasApplied(j)
         /\ m_acc.log[k].fate = "overlap"
         /\ FilesOf(k) \cap FilesOf(i) # {}

\* C2: the returned status is `fail` exactly when the change size of the
\* applied results exceeds max_diff_lines, diff_lines is that total, and
\* within the budget the status is `pass` without conflicts and `conflict`
\* with them.
C2_BudgetDecidesStatus ==
    MergeDone =>
      /\ m_outcome.diff_lines = AppliedTotal(Len(m_acc.log))
      /\ (AppliedTotal(Len(m_acc.log)) > m_max => m_outcome.status = "fail")
      /\ (AppliedTotal(Len(m_acc.log)) <= m_max =>
            m_outcome.status =
              (IF m_outcome.conflicts = <<>> THEN "pass" ELSE "conflict"))

C2_Witness ==
    /\ MergeDone
    /\ m_max = 100
    /\ m_outcome.diff_lines = 150
    /\ m_outcome.status = "fail"
    /\ m_outcome.conflicts # <<>>

\* C9 as stated: when two passing results of one pass change the same file,
\* the status is `conflict` and neither of the two is applied.
C9_NeitherOverlappingApplied ==
    MergeDone =>
      \A i, j \in LogIndices :
        (/\ i < j
         /\ m_acc.log[i].result.status = "pass"
         /\ m_acc.log[j].result.status = "pass"
         /\ FilesOf(i) \cap FilesOf(j) # {})
        => /\ m_outcome.status = "conflict"
           /\ ~WasApplied(i) /\ ~WasApplied(j)

\* C9 as amended: when two passing results with a patch file change the same
\* file, the earlier one in role-name order is handed to apply_patch unless it
\* overlaps an earlier applied result, and stays applied when apply_patch
\* succeeds; the later one is then recorded as an overlapping_changes conflict
\* naming the shared files and is not handed to apply_patch; at least one
\* conflict is recorded, so the status is `conflict`, or `fail` over budget; a
\* result that overlaps no applied result is still handed to apply_patch.
C9_LaterOverlappingIsConflict ==
    MergeDone =>
      /\ \A i, j \in LogIndices :
           (/\ i < j /\ Applicable(i) /\ Applicable(j)
            /\ FilesOf(i) \cap FilesOf(j) # {})
           => /\ (WasApplied(i) =>
                    /\ m_acc.log[j].fate = "overlap"
                    /\ \E c \in 1..Len(m_outcome.conflicts) :
                         /\ m_outcome.conflicts[c].expert = m_acc.log[j].result.expert
                         /\ m_outcome.conflicts[c].reason = "overlapping_changes"
                         /\ FilesOf(i) \cap FilesOf(j) \subseteq m_outcome.conflicts[c].files)
              /\ (FilesOf(i) \cap AppliedBefore(i) = {} => WasHanded(i))
              /\ m_outcome.conflicts # <<>>
              /\ m_outcome.status =
                   (IF AppliedTotal(Len(m_acc.log)) > m_max THEN "fail" ELSE "conflict")
      /\ \A k \in LogIndices :
           (Applicable(k) /\ FilesOf(k) \cap AppliedBefore(k) = {}) => WasHanded(k)
      /\ \A k \in LogIndices :
           WasApplied(k) =>
             \E a \in 1..Len(m_outcome.applied) :
               m_outcome.applied[a] = m_acc.log[k].result.expert

C9_Witness ==
    /\ MergeDone
    /\ m_outcome.status = "conflict"
    /\ \E i, j, k \in LogIndices :
         /\ i < j
         /\ WasApplied(i) /\ m_acc.log[j].fate = "overlap"
         /\ FilesOf(i) \cap FilesOf(j) # {}
         /\ k > j /\ WasApplied(k)

(***************************************************************************)
(* SpecSelection: one call of _resolve_selection on every bounded input.   *)
(***************************************************************************)
ScanResults ==
    [backend : BOOLEAN, frontend : BOOLEAN, db : BOOLEAN,
     devops : BOOLEAN, docs : BOOLEAN]

Goals == {{"add", "login", "api"}, {"update", "readme", "guide"}}

MaxExpertsArgs == (0 - 1)..7

InitSelection ==
    /\ MergeIdle /\ AllowlistIdle /\ ExecutorIdle /\ RunIdle /\ ResolveIdle /\ RouteIdle
    /\ s_args \in [scan : ScanResults, goal : Goals, max_experts : MaxExpertsArgs,
                   planner_augmentation : BOOLEAN]
    /\ s_pc = "call"
    /\ s_selected = <<>>
    /\ s_planner = NoPlanner
    /\ s_final = <<>>
    /\ s_note = "none"

\* runner.py 207-209: the deterministic pass, returned as is without planner.
SelectDeterministic ==
    /\ s_pc = "call"
    /\ s_selected' = select_experts_deterministic(s_args.scan, s_args.goal,
                                                  s_args.max_experts)
    /\ IF s_args.planner_augmentation
       THEN /\ s_pc' = "planner"
            /\ UNCHANGED <<s_final, s_note>>
       ELSE /\ s_pc' = "done"
            /\ s_final' = s_selected'
            /\ s_note' = "none"
    /\ UNCHANGED <<s_args, s_planner, notSelVars>>

\* runner.py 211-224: the planner pass and the final roster.
PlannerAugment ==
    /\ s_pc = "planner"
    /\ \E resp \in PlannerResponses :
         /\ s_planner' = resp
         /\ IF resp.kind = "raise"
            THEN /\ s_pc' = "raised"
                 /\ UNCHANGED <<s_final, s_note>>
            ELSE LET aug == planner_augment_experts(s_selected, resp)
                 IN  /\ s_pc' = "done"
                     /\ s_final' = ResolveFinal(aug, s_args.max_experts)
                     /\ s_note' = aug.note
    /\ UNCHANGED <<s_args, s_selected, notSelVars>>

NextSelection == SelectDeterministic \/ PlannerAugment

SpecSelection == InitSelection /\ [][NextSelection]_vars

(***************************************************************************)
(* Properties of _resolve_selection (SpecSelection).                       *)
(***************************************************************************)
NoDuplicates(s) == \A i, j \in 1..Len(s) : i # j => s[i] # s[j]

RequiredFirst(s) ==
    /\ Len(s) >= 2
    /\ s[1] = "SecurityExpert"
    /\ s[2] = "TestingExpert"

\* C5: select_experts_deterministic and _resolve_selection return a
\* duplicate-free role list that starts with SecurityExpert, TestingExpert
\* and has at most max(max_experts, 2) roles, whatever the scan, the goal,
\* the planner output and the requested maximum.
C5_RosterRequiredFirstBounded ==
    /\ s_pc \in {"planner", "done", "raised"} =>
         /\ NoDuplicates(s_selected)
         /\ RequiredFirst(s_selected)
         /\ Len(s_selected) <= Max(s_args.max_experts, 2)
    /\ s_pc = "done" =>
         /\ NoDuplicates(s_final)
         /\ RequiredFirst(s_final)
         /\ Len(s_final) <= Max(s_args.max_experts, 2)

C5_Witness ==
    /\ s_pc = "done"
    /\ s_args.max_experts = 1
    /\ s_args.scan.backend
    /\ s_planner.kind = "stdout" /\ s_planner.payload = "list"
    /\ InSeq("DBExpert", s_planner.names)
    /\ s_final = required_experts

(***************************************************************************)
(* SpecAllowlist: _enforce_allowlist for every role, after the tool has    *)
(* modified any set of the repository's tracked files.                     *)
(***************************************************************************)
RepoFiles ==
    { <<".", "g", "i", "t", "h", "u", "b", "/", "w", "o", "r", "k", "f", "l", "o", "w", "s", "/", "c", "i", ".", "y", "m", "l">>,
      <<"a", "p", "p", "/", ".", "e", "n", "v">>,
      <<"d", "o", "c", "s", "/", ".", "e", "n", "v", ".", "l", "o", "c", "a", "l">>,
      <<"s", "c", "r", "i", "p", "t", "s", "/", "s", "e", "c", "r", "e", "t", "s", "/", "k", ".", "s", "h">>,
      <<"t", "e", "s", "t", "s", "/", "t", "e", "s", "t", "_", "s", "e", "c", "r", "e", "t", ".", "p", "y">>,
      <<"d", "o", "c", "s", "/", "a", ".", "m", "d">>,
      <<"s", "r", "c", "/", "a", "p", "p", ".", "t", "s">>,
      <<"a", "p", "p", "/", "s", "e", "c", "r", "e", "t", "s", "/", "c", "l", "U+00E9", ".", "p", "e", "m">> }


InitAllowlist ==
    /\ MergeIdle /\ SelectionIdle /\ ExecutorIdle /\ RunIdle /\ ResolveIdle /\ RouteIdle
    /\ a_role \in AllExperts
    /\ a_worktree \in SUBSET RepoFiles
    /\ a_pc = "tool_done"
    /\ a_changed = {}
    /\ a_blocked = {}

\* executor.py 253-255: the allowlist is enforced, then the patch is taken
\* from what the worktree still differs in.
EnforceAllowlist ==
    /\ a_pc = "tool_done"
    /\ LET r == _enforce_allowlist(a_worktree, EXPERT_ALLOWED_PATHS[a_role])
       IN  /\ a_worktree' = r.worktree
           /\ a_changed' = r.changed_files
           /\ a_blocked' = r.blocked_files
    /\ a_pc' = "enforced"
    /\ UNCHANGED <<a_role, notAllowVars>>

NextAllowlist == EnforceAllowlist

SpecAllowlist == InitAllowlist /\ [][NextAllowlist]_vars

(***************************************************************************)
(* Properties of _enforce_allowlist (SpecAllowlist).                       *)
(***************************************************************************)
OnDenyList(path) == \E pattern \in GLOBAL_DENY_PATTERNS : fnmatch(path, pattern)

OwnedBy(role, path) == \E pattern \in EXPERT_ALLOWED_PATHS[role] : fnmatch(path, pattern)

\* C10: after the allowlist is enforced, no file that is on the deny-list or
\* outside the role's allowed paths is left changed in the worktree (the
\* patch) or named in the changed-file list, also when an allowed path of
\* the role matches a deny-listed file.
C10_DeniedFilesReverted ==
    a_pc = "enforced" =>
      /\ \A path \in a_worktree : ~OnDenyList(path) /\ OwnedBy(a_role, path)
      /\ \A rel \in a_changed : ~OnDenyList(rel) /\ OwnedBy(a_role, rel)

(***************************************************************************)
(* SpecExecutor: the three batches of each iteration of run_swarm, each an *)
(* asyncio.run(execute_assignments(...)), then the hand-over of all their  *)
(* results to merge_expert_results.                                        *)
(***************************************************************************)
ExecOptionalRoles == {"BackendExpert", "DocsExpert"}

\* The rosters an iteration starts with: the required roles, then optional
\* ones in selection order.
ExecRosters ==
    {AppendWanted(required_experts, _OPTIONAL_EXPERT_ORDER, S) :
        S \in {T \in SUBSET ExecOptionalRoles :
                 Cardinality(T) <= MaxOptionalWorkers}}

Workers == 1..Len(e_workers)

AllStarted == \A i \in Workers : e_workers[i].pc # "new"

InitExecutor ==
    /\ MergeIdle /\ SelectionIdle /\ AllowlistIdle /\ RunIdle /\ ResolveIdle /\ RouteIdle
    /\ e_dry \in BOOLEAN
    /\ e_roster \in ExecRosters
    /\ e_phase = "pre"
    /\ e_call = "gathering"
    /\ e_workers = NewBatch("pre", e_roster)
    /\ e_results = NoBatchResults
    /\ e_merge_input = <<>>
    /\ e_iter = 1

\* What the first step of a task can end in (lines 183-246, 105).
StartOutcomes(w) ==
    IF e_dry THEN {DryRunReturn(w)}
    ELSE {WorktreeError(w), Launched(WorktreeAdded(w)),
          LaunchRaised(WorktreeAdded(w))}

\* The event loop runs the first step of each task in assignment order,
\* before it handles any process event or wakes the gathering coroutine.
StartWorker(i) ==
    /\ e_call = "gathering"
    /\ i \in Workers
    /\ e_workers[i].pc = "new"
    /\ \A j \in 1..(i - 1) : e_workers[j].pc # "new"
    /\ \E w \in StartOutcomes(e_workers[i]) :
          e_workers' = [e_workers EXCEPT ![i] = w]
    /\ UNCHANGED <<e_dry, e_roster, e_phase, e_call, e_results, e_merge_input, e_iter>>
    /\ UNCHANGED notExecVars

\* What lines 253-297 can end in once _run_codex returned `code`.
AfterToolOutcomes(w, code) ==
    {AfterRunCodex(w, code, files) : files \in ToolChanges}
    \cup {AfterRunCodexRaised(w)}

\* The tool's process exits before the timeout: communicate() returns.
ToolExits(i) ==
    /\ e_call \in {"gathering", "raised"}
    /\ i \in Workers
    /\ AllStarted
    /\ e_workers[i].pc = "running"
    /\ \E outcome \in {"zero", "nonzero", "unsupported_flag"} :
        \E w \in (IF NeedsFallback(e_workers[i], outcome)
                  THEN {Launched(InvokeReturned(e_workers[i], outcome)),
                        LaunchRaised(InvokeReturned(e_workers[i], outcome))}
                  ELSE AfterToolOutcomes(InvokeReturned(e_workers[i], outcome),
                                         IF outcome = "zero" THEN 0 ELSE 1)) :
            e_workers' = [e_workers EXCEPT ![i] = w]
    /\ UNCHANGED <<e_dry, e_roster, e_phase, e_call, e_results, e_merge_input, e_iter>>
    /\ UNCHANGED notExecVars

\* wait_for gives up after timeout_sec.
ToolTimesOut(i) ==
    /\ e_call \in {"gathering", "raised"}
    /\ i \in Workers
    /\ AllStarted
    /\ e_workers[i].pc = "running"
    /\ e_workers' = [e_workers EXCEPT ![i] = TimeoutCaught(@)]
    /\ UNCHANGED <<e_dry, e_roster, e_phase, e_call, e_results, e_merge_input, e_iter>>
    /\ UNCHANGED notExecVars

\* proc.wait() returns for the killed process: _invoke returns 124.
ProcReaped(i) ==
    /\ e_call \in {"gathering", "raised"}
    /\ i \in Workers
    /\ e_workers[i].pc = "killing"
    /\ \E w \in AfterToolOutcomes(InvokeReturned(e_workers[i], "timeout"), 124) :
          e_workers' = [e_workers EXCEPT ![i] = w]
    /\ UNCHANGED <<e_dry, e_roster, e_phase, e_call, e_results, e_merge_input, e_iter>>
    /\ UNCHANGED notExecVars

\* gather (return_exceptions=False): the first task that raised makes
\* `await asyncio.gather(*tasks)` raise; the other tasks keep running.
GatherRaises ==
    /\ e_call = "gathering"
    /\ AllStarted
    /\ \E i \in Workers : e_workers[i].pc = "raised"
    /\ e_call' = "raised"
    /\ UNCHANGED <<e_dry, e_roster, e_phase, e_workers, e_results, e_merge_input, e_iter>>
    /\ UNCHANGED notExecVars

\* Every task returned: execute_assignments returns the sorted results.
GatherReturns ==
    /\ e_call = "gathering"
    /\ AllReturned(e_workers)
    /\ e_call' = "returned"
    /\ e_results' = [e_results EXCEPT
                        ![e_phase] = SortedByExpert(ResultsOf(e_workers))]
    /\ UNCHANGED <<e_dry, e_roster, e_phase, e_workers, e_merge_input, e_iter>>
    /\ UNCHANGED notExecVars

\* asyncio.run, after the main coroutine raised: cancel() on every task
\* still pending, then run the loop until they are done.
ShutdownCancel ==
    /\ e_call = "raised"
    /\ e_call' = "cancelling"
    /\ UNCHANGED <<e_dry, e_roster, e_phase, e_workers, e_results, e_merge_input, e_iter>>
    /\ UNCHANGED notExecVars

CancelWorker(i) ==
    /\ e_call = "cancelling"
    /\ i \in Workers
    /\ e_workers[i].pc \in {"running", "killing"}
    /\ e_workers' = [e_workers EXCEPT ![i] = Cancelled(@)]
    /\ UNCHANGED <<e_dry, e_roster, e_phase, e_call, e_results, e_merge_input, e_iter>>
    /\ UNCHANGED notExecVars

\* asyncio.run re-raises; run_swarm has no handler around it.
RunRaises ==
    /\ e_call = "cancelling"
    /\ \A i \in Workers : Finished(e_workers[i])
    /\ e_call' = "run_raised"
    /\ e_phase' = "aborted"
    /\ UNCHANGED <<e_dry, e_roster, e_workers, e_results, e_merge_input, e_iter>>
    /\ UNCHANGED notExecVars

\* asyncio.run returns the results; run_swarm goes on to the next batch.
RunReturns ==
    /\ BatchOver(e_call)
    /\ e_phase' = NextPhase(e_phase)
    /\ IF NextPhase(e_phase) = "merge"
       THEN /\ e_call' = "done"
            /\ UNCHANGED e_workers
       ELSE /\ e_call' = "gathering"
            /\ e_workers' = NewBatch(NextPhase(e_phase), e_roster)
    /\ UNCHANGED <<e_dry, e_roster, e_results, e_merge_input, e_iter>>
    /\ UNCHANGED notExecVars

\* all_results = security_results + mid_results + security_final_results,
\* the `results` argument of merge_expert_results.
CallMerge ==
    /\ e_phase = "merge"
    /\ e_call = "done"
    /\ e_call' = "merging"
    /\ e_merge_input' = e_results.pre \o e_results.mid \o e_results.post
    /\ UNCHANGED <<e_dry, e_roster, e_phase, e_workers, e_results, e_iter>>
    /\ UNCHANGED notExecVars

\* The iterations followed here: what a batch does is the same in every
\* iteration, two of them show what carries over from one to the next.
ExecIterations == Min(MaxIterations, 2)

\* Lines 460-493: merge_expert_results returns; a `fail` outcome ends the
\* loop, else the commit follows and the gate is started.  The batch
\* results are not read again.
MergeReturns ==
    /\ e_call = "merging"
    /\ e_call' \in {"gating", "ended"}
    /\ e_results' = NoBatchResults
    /\ e_merge_input' = <<>>
    /\ UNCHANGED <<e_dry, e_roster, e_phase, e_workers, e_iter>>
    /\ UNCHANGED notExecVars

\* Lines 495-517: the gate returns; a pass ends the loop, else the router
\* is called.
GateReturns ==
    /\ e_call = "gating"
    /\ e_call' \in {"routing", "ended"}
    /\ UNCHANGED <<e_dry, e_roster, e_phase, e_workers, e_results,
                   e_merge_input, e_iter>>
    /\ UNCHANGED notExecVars

\* Lines 519-534 and 384-414: the router returns the next roster; the loop
\* ends at max_iterations, else the next iteration starts its first batch.
NextIteration ==
    /\ e_call = "routing"
    /\ IF e_iter >= ExecIterations
       THEN /\ e_call' = "ended"
            /\ UNCHANGED <<e_roster, e_phase, e_workers, e_iter>>
       ELSE /\ e_roster' \in ExecRosters
            /\ e_iter' = e_iter + 1
            /\ e_phase' = "pre"
            /\ e_call' = "gathering"
            /\ e_workers' = NewBatch("pre", e_roster')
    /\ UNCHANGED <<e_dry, e_results, e_merge_input>>
    /\ UNCHANGED notExecVars

NextExecutor ==
    \/ MergeReturns
    \/ GateReturns
    \/ NextIteration
    \/ \E i \in 1..MaxBatch : StartWorker(i)
    \/ \E i \in 1..MaxBatch : ToolExits(i)
    \/ \E i \in 1..MaxBatch : ToolTimesOut(i)
    \/ \E i \in 1..MaxBatch : ProcReaped(i)
    \/ GatherRaises
    \/ GatherReturns
    \/ ShutdownCancel
    \/ \E i \in 1..MaxBatch : CancelWorker(i)
    \/ RunRaises
    \/ RunReturns
    \/ CallMerge

SpecExecutor == InitExecutor /\ [][NextExecutor]_vars

(***************************************************************************)
(* Properties of the executor (SpecExecutor).                              *)
(***************************************************************************)
TimedOut(w) == w.failure = "timeout"

InResults(r, s) == \E k \in 1..Len(s) : s[k] = r

\* C6: a worker that hits its timeout has its process killed and, where its
\* task returns, returns a fail result (return code 124); the timeout never
\* leaves the worker as an exception, so it cancels no sibling; when
\* execute_assignments returns, it returns the result of every worker of the
\* batch, and the results of all three batches are the Integrator's input.
C6_TimeoutKillsOnlyItsWorker ==
    /\ \A i \in Workers :
          TimedOut(e_workers[i]) =>
              /\ e_workers[i].proc = "killed"
              /\ e_workers[i].exc # "TimeoutError"
              /\ e_workers[i].pc = "returned" =>
                    /\ e_workers[i].result.status = "fail"
                    /\ e_workers[i].result.return_code = 124
    /\ \A i \in Workers :
          e_workers[i].pc = "cancelled" =>
              \E j \in Workers : e_workers[j].exc \in {"OSError", "UnicodeDecodeError"}
    /\ e_call = "returned" =>
          /\ Len(e_results[e_phase]) = Len(e_workers)
          /\ \A i \in Workers : InResults(e_workers[i].result, e_results[e_phase])
    /\ e_call = "merging" =>
          /\ e_merge_input = e_results.pre \o e_results.mid \o e_results.post
          /\ Len(e_results.mid) = Len(e_roster) - 1
          /\ Len(e_results.pre) = 1 /\ Len(e_results.post) = 1

\* A batch in which one worker timed out and a sibling passed with changes,
\* handed to the Integrator.
C6_Witness ==
    /\ e_call = "merging"
    /\ \E i, j \in 1..Len(e_results.mid) :
          /\ i # j
          /\ e_results.mid[i].return_code = 124
          /\ e_results.mid[i].status = "fail"
          /\ e_results.mid[j].status = "pass"
          /\ e_results.mid[j].changed_files # {}
          /\ InResults(e_results.mid[i], e_merge_input)
          /\ InResults(e_results.mid[j], e_merge_input)

\* C7: a failure scoped to one worker (tool cannot be launched, non-zero
\* exit, worktree allocation failure, timeout) ends that worker's task with
\* a fail result, never with the failure's exception, and never makes
\* execute_assignments or the run raise.
ScopedFailures == {"alloc", "launch", "exit", "timeout"}

C7_WorkerFailuresContained ==
    /\ \A i \in Workers :
          e_workers[i].failure \in ScopedFailures =>
              /\ e_workers[i].exc \notin {"OSError", "TimeoutError"}
              /\ e_workers[i].pc = "returned" =>
                    e_workers[i].result.status = "fail"
    /\ e_call \in {"raised", "cancelling", "run_raised"} =>
          \A i \in Workers :
              e_workers[i].pc = "raised" => e_workers[i].failure = "decode"

NoWorktreeAllocated == \A i \in Workers : ~e_workers[i].worktree

RunMaxExperts == {1, 3}

RunScans ==
    {[backend |-> FALSE, frontend |-> FALSE, db |-> FALSE, devops |-> FALSE,
      docs |-> FALSE],
     [backend |-> TRUE, frontend |-> TRUE, db |-> FALSE, devops |-> FALSE,
      docs |-> FALSE]}

RunGoal == {"add", "login", "api"}

\* The largest --max-iterations of the runs explored.
RunIterations == Min(MaxIterations, 2)

RunArgs ==
    [max_experts : RunMaxExperts, max_iterations : (0 - 1)..RunIterations,
     autofix : BOOLEAN, dry_run : BOOLEAN]

RunPlannerResponses ==
    {resp \in PlannerResponses :
        \/ resp.kind \in {"exit", "raise"}
        \/ resp.payload = "list" /\ resp.names = <<"DocsExpert">>}

RunFiles == {"swarm_skills/a.py", "swarm_skills/b.py"}

RunMaxDiffLines == 100

\* The results a worker of `role` can return to the runner.
RunShapes(role, dry_run) ==
    IF dry_run THEN {WorkerResult(role, "pass", {}, TRUE, 0, 0 - 1)}
    ELSE {WorkerResult(role, "fail", {}, TRUE, 0, 1)}
         \cup {WorkerResult(role, "pass", {f}, TRUE, 60, 0) : f \in RunFiles}

\* What execute_assignments can return for a batch of `roles`.
BatchOutcomes(roles, dry_run) ==
    {SortedByExpert(rs) :
        rs \in {r \in [1..Len(roles) ->
                         UNION {RunShapes(roles[i], dry_run) : i \in 1..Len(roles)}] :
                  \A i \in 1..Len(roles) : r[i].expert = roles[i]}}

\* What the acceptance gate can report when it does not pass.
GateFailures ==
    {[status |-> "fail", steps |-> <<>>, text |-> {}, wrote |-> FALSE],
     [status |-> "fail",
      steps |-> <<[step_name |-> "frontend_bind", status |-> "fail"]>>,
      text |-> {}, wrote |-> TRUE],
     [status |-> "fail",
      steps |-> <<[step_name |-> "scaffold_verify", status |-> "pass"],
                  [step_name |-> "backend_build", status |-> "fail"],
                  [step_name |-> "fullstack_test_harness", status |-> "fail"]>>,
      text |-> {"docs"}, wrote |-> TRUE]}

GatePass == [status |-> "pass", steps |-> <<>>, text |-> {}, wrote |-> TRUE]

\* A row of iteration_records: a failure row has a reason, a row of a gated
\* iteration the gate status and, after a failed gate, the routing reason.
IterationRecord(iteration, reason, gate_status, integration_status) ==
    [iteration |-> iteration, reason |-> reason, gate_status |-> gate_status]

InitRun ==
    /\ MergeIdle /\ SelectionIdle /\ AllowlistIdle /\ ExecutorIdle /\ ResolveIdle /\ RouteIdle
    /\ run \in {RunStart(args) : args \in RunArgs}

\* The repositories and --spec arguments a run is started on.
RunRepos == {EmptyRepo, [EmptyRepo EXCEPT !["spec.md"] = 1]}

RunProvided == {"", "spec.md", "notes/plan.md"}

resolve_spec_discovers_when_missing(fs, provided, gen_if_missing, ts, now) ==
    resolve_spec(fs, IF IsFile(fs, provided) THEN provided ELSE "",
                 gen_if_missing, ts, now)

\* Lines 308-314.
RunResolveSpec(fs, provided, gen_if_missing, ts, now) ==
    resolve_spec(fs, provided, gen_if_missing, ts, now)

\* Lines 308-327: resolve_spec (which raises FileNotFoundError for an
\* explicit path that is no file) and the missing-spec exit.
ResolveSpec ==
    /\ run.pc = "resolve"
    /\ \E fs \in RunRepos, provided \in RunProvided, gen_if_missing \in BOOLEAN :
          LET result == RunResolveSpec(fs, provided, gen_if_missing,
                                       GenTimestamps[1], MaxMtime + 1)
              resolution ==
                  [made |-> TRUE, provided |-> provided,
                   not_a_file |-> provided # "" /\ ~IsFile(fs, provided),
                   raised |-> result.raised, mode |-> result.record.mode,
                   candidates |-> result.record.discovered_candidates,
                   generated |-> result.fs # fs]
          IN  run' = IF result.raised
                     THEN [run EXCEPT !.pc = "crashed", !.resolution = resolution]
                     ELSE IF result.path = "none"
                     THEN [run EXCEPT !.pc = "exited", !.resolution = resolution,
                                      !.summary = "missing_spec", !.exit_code = 2]
                     ELSE [run EXCEPT !.pc = "select", !.resolution = resolution,
                                      !.spec_path = "spec.md"]
    /\ UNCHANGED notRunVars

\* Lines 329-356: _resolve_selection and plan.json, for what the scan of the
\* repository finds and with or without --planner-augmentation.
ResolveSelection ==
    /\ run.pc = "select"
    /\ \E scan \in RunScans, planner_augmentation \in BOOLEAN :
       LET selected == select_experts_deterministic(scan, RunGoal,
                                                    run.args.max_experts)
       IN  IF ~planner_augmentation
           THEN run' = [run EXCEPT !.pc = "prepare", !.experts = selected,
                                   !.resolution = NoResolution]
           ELSE \E resp \in RunPlannerResponses :
                  run' = IF resp.kind = "raise"
                         THEN [run EXCEPT !.pc = "crashed",
                                          !.resolution = NoResolution]
                         ELSE LET aug == planner_augment_experts(selected, resp)
                              IN  [run EXCEPT
                                     !.pc = "prepare",
                                     !.resolution = NoResolution,
                                     !.experts = ResolveFinal(aug, run.args.max_experts),
                                     !.planner_note = aug.note]
    /\ UNCHANGED notRunVars

\* Lines 358-382: the integration worktree and the locals of the loop
\* (`experts` is not read again and is dropped).
PrepareIntegration ==
    /\ run.pc = "prepare"
    /\ \E ok \in (IF run.args.dry_run THEN {TRUE} ELSE BOOLEAN) :
          run' = IF ~ok
                 THEN [run EXCEPT !.pc = "exited",
                                  !.summary = "integration_worktree_error",
                                  !.exit_code = 1]
                 ELSE [run EXCEPT
                         !.pc = "loop",
                         !.integration = [NoIntegration EXCEPT
                                            !.exists = ~run.args.dry_run],
                         !.max_iterations = IF run.args.autofix
                                            THEN run.args.max_iterations ELSE 1,
                         !.routed_experts = run.experts,
                         !.experts = <<>>,
                         !.roster_source = "selection",
                         !.final_status = "fail"]
    /\ UNCHANGED notRunVars

\* Lines 384-398: the for statement and the elapsed-time check.
StartIteration ==
    /\ run.pc = "loop"
    /\ IF run.iteration >= run.max_iterations
       THEN run' = [run EXCEPT !.pc = "summary"]
       ELSE   run' = IF TimeBudgetExceeded(run)
                     THEN [run EXCEPT
                             !.iteration = @ + 1,
                             !.iteration_records =
                                 Append(@, IterationRecord(run.iteration + 1,
                                             "time_budget_exceeded", "none", "none")),
                             !.final_status = "fail",
                             !.pc = "summary"]
                     ELSE [run EXCEPT
                             !.iteration = @ + 1,
                             !.batch_bases = <<>>,
                             !.pc = "batch", !.phase = "pre"]
    /\ UNCHANGED notRunVars

\* Lines 401-446: one asyncio.run(execute_assignments(...)); an exception of
\* a worker task ends run_swarm.
RunBatch ==
    /\ run.pc = "batch"
    /\ \/ /\ ~run.args.dry_run
          /\ run' = [run EXCEPT !.pc = "crashed"]
       \/ \E results \in BatchOutcomes(BatchRoles(run.phase, run.routed_experts),
                                       run.args.dry_run) :
            run' = [run EXCEPT
                      !.all_results = @ \o results,
                      !.batch_bases = Append(@, BatchBaseRef(run)),
                      !.phase = NextPhase(run.phase),
                      !.pc = IF NextPhase(run.phase) = "merge"
                             THEN "integrate" ELSE "batch"]
    /\ UNCHANGED notRunVars

\* Lines 448-476: merge_expert_results with git apply on the integration
\* worktree (dry_run: an apply function that does nothing).
Integrate ==
    /\ run.pc = "integrate"
    /\ \E oks \in [1..Len(run.all_results) ->
                     IF run.args.dry_run THEN {TRUE} ELSE BOOLEAN] :
          LET m == merge_expert_results(run.all_results, RunMaxDiffLines, oks)
          IN  run' = [run EXCEPT
                        !.pc = "integrated",
                        !.integration_outcome = m.outcome,
                        !.applied_to_integration =
                            IF run.args.dry_run THEN <<>> ELSE m.outcome.applied,
                        !.integration.dirty =
                            IF run.args.dry_run THEN @ ELSE @ \cup m.touched_files]
    /\ UNCHANGED notRunVars

\* Lines 478-493: the budget failure, else the commit and the new base_ref.
AfterIntegration ==
    /\ run.pc = "integrated"
    /\ IF IntegrationFailed(run.integration_outcome)
       THEN run' = [run EXCEPT
                      !.iteration_records =
                          Append(@, IterationRecord(run.iteration,
                                      "max_diff_lines_exceeded", "none", "fail")),
                      !.final_status = "fail",
                      !.pc = "summary"]
       ELSE IF run.args.dry_run \/ run.integration.dirty = {}
       THEN run' = [run EXCEPT !.pc = "gate", !.all_results = <<>>,
                               !.batch_bases = <<>>]
       ELSE \E committed \in BOOLEAN :
              run' = IF committed
                     THEN [run EXCEPT
                             !.pc = "gate", !.all_results = <<>>,
                             !.batch_bases = <<>>,
                             !.integration.head = @ + 1,
                             !.integration.dirty = {},
                             !.base_ref = run.integration.head + 1]
                     ELSE [run EXCEPT !.pc = "gate", !.all_results = <<>>,
                                      !.batch_bases = <<>>]
    /\ UNCHANGED notRunVars

\* Lines 495-517: the acceptance gate, run with the integration worktree
\* as its workspace root, where the pipeline writes its artifacts.
RunGate ==
    /\ run.pc = "gate"
    /\ \E gate \in (IF run.args.dry_run THEN {SimulatedGate}
                    ELSE {GatePass} \cup GateFailures) :
          run' = IF gate.status = "pass"
                 THEN [run EXCEPT
                         !.gate = gate,
                         !.integration.dirty =
                             IF gate.wrote THEN @ \cup {GateReportFile} ELSE @,
                         !.iteration_records =
                             Append(@, IterationRecord(run.iteration, "none", "pass",
                                         run.integration_outcome.status)),
                         !.final_status = "pass",
                         !.pc = "summary"]
                 ELSE [run EXCEPT
                         !.gate = gate,
                         !.integration.dirty =
                             IF gate.wrote THEN @ \cup {GateReportFile} ELSE @,
                         !.pc = "route"]
    /\ UNCHANGED notRunVars

\* Lines 519-534: the router and the next roster.
Route ==
    /\ run.pc = "route"
    /\ LET route == classify_and_route(run.gate.steps, run.gate.text,
                                       run.args.max_experts)
           conflicts == run.integration_outcome.conflicts
       IN  run' = [run EXCEPT
                     !.iteration_records =
                         Append(@, IterationRecord(run.iteration, route.reason,
                                     "fail", run.integration_outcome.status)),
                     !.routed_experts =
                         NextRoster(conflicts, route.experts, run.args.max_experts),
                     !.roster_source =
                         IF conflicts # <<>> THEN "conflicts" ELSE "router",
                     !.integration_outcome = NoOutcome,
                     !.applied_to_integration = <<>>,
                     !.gate = NoGate,
                     !.pc = "loop"]
    /\ UNCHANGED notRunVars

\* Lines 536-552: summary.json, the latest directory and the exit code.
WriteSummary ==
    /\ run.pc = "summary"
    /\ run' = [run EXCEPT
                 !.summary = run.final_status,
                 !.exit_code = IF run.final_status = "pass" THEN 0 ELSE 1,
                 !.pc = "exited"]
    /\ UNCHANGED notRunVars

\* The elapsed time goes beyond args.time_budget, at any moment of the
\* loop.
TimePasses ==
    /\ run.pc \in {"loop", "batch", "integrate", "integrated", "gate", "route"}
    /\ ~run.over_time
    /\ run' = [run EXCEPT !.over_time = TRUE]
    /\ UNCHANGED notRunVars

NextRun ==
    \/ TimePasses
    \/ ResolveSpec
    \/ ResolveSelection
    \/ PrepareIntegration
    \/ StartIteration
    \/ RunBatch
    \/ Integrate
    \/ AfterIntegration
    \/ RunGate
    \/ Route
    \/ WriteSummary

SpecRun == InitRun /\ [][NextRun]_vars

(***************************************************************************)
(* Properties of run_swarm (SpecRun).                                      *)
(***************************************************************************)
IterationInProgress ==
    run.pc \in {"batch", "integrate", "integrated", "gate", "route"}

\* C3 as stated: whenever the integration outcome of an iteration is `fail`,
\* no patch of that iteration has been applied to the integration worktree.
C3_FailAppliesNothing ==
    (run.pc \in {"integrated", "summary", "exited"}
        /\ run.integration_outcome.status = "fail")
    => /\ run.applied_to_integration = <<>>
       /\ run.integration.dirty = {}

\* C4: while an iteration is in progress, whichever way its roster was made
\* (initial selection, router, conflicts), the roster contains SecurityExpert
\* and TestingExpert.
C4_RequiredRolesInEveryRoster ==
    IterationInProgress =>
        /\ run.roster_source \in {"selection", "router", "conflicts"}
        /\ InSeq("SecurityExpert", run.routed_experts)
        /\ InSeq("TestingExpert", run.routed_experts)

\* A second iteration runs on a roster derived from conflicts under
\* max_experts 1, after a first one that ran on the initial selection.
C4_Witness ==
    /\ run.pc = "batch"
    /\ run.iteration = 2
    /\ run.roster_source = "conflicts"
    /\ run.args.max_experts = 1
    /\ run.routed_experts = required_experts

\* run_swarm is over: it returned an exit code ("exited") or an exception
\* left it ("crashed", no exit code is returned).
RunTerminated == run.pc \in {"exited", "crashed"}

\* C11: when run_swarm has terminated, its exit code is 2 exactly when no
\* spec was resolved (and then no batch, integration or gate has run), 0
\* exactly when the gate of an iteration passed, and 1 in every other case.
C11_ExitCodes ==
    RunTerminated =>
        /\ run.exit_code \in {0, 1, 2}
        /\ run.exit_code = 2 <=> run.spec_path = "none"
        /\ run.exit_code = 2 =>
              /\ run.iteration = 0
              /\ run.integration = NoIntegration
              /\ run.gate = NoGate
        /\ run.exit_code = 0 <=> run.gate.status = "pass"

(***************************************************************************)
(* SpecResolve: calls of resolve_spec, one after the other, on a           *)
(* repository that only generate_spec changes.                             *)
(***************************************************************************)
\* The files a repository can hold before the first call; the age of
\* notes/plan.md, which is no candidate, plays no part.
InitialSpecPaths ==
    {LatestSpecPath, "docs/specs/b.md", "examples/specs/a.md", "notes/plan.md",
     "spec.md"}

\* The --spec argument: none, a file that is no candidate, a candidate, a
\* directory.
ProvidedArgs == {"", "notes/plan.md", "docs/specs/b.md", "docs"}

InitResolve ==
    /\ MergeIdle /\ SelectionIdle /\ AllowlistIdle /\ ExecutorIdle /\ RunIdle
    /\ RouteIdle
    /\ rs_fs \in {fs \in [SpecPaths -> 0..MaxMtime] :
                    /\ \A p \in SpecPaths \ InitialSpecPaths : fs[p] = 0
                    /\ fs["notes/plan.md"] <= 1}
    /\ rs_clock = 1
    /\ rs_previous = NoCall
    /\ rs_last = NoCall

\* One call of resolve_spec; files written now are newer than all others.
ResolveCall ==
    /\ \E provided \in ProvidedArgs, gen_if_missing \in BOOLEAN :
          LET result == resolve_spec(rs_fs, provided, gen_if_missing,
                                     GenTimestamps[rs_clock], MaxMtime + rs_clock)
          IN  /\ rs_last' = ResolveCallRecord(provided, gen_if_missing, rs_fs, result)
              /\ rs_fs' = result.fs
    /\ rs_previous' = rs_last
    /\ UNCHANGED rs_clock
    /\ UNCHANGED notResolveVars

\* Time passes: utc_timestamp() returns the next value.
ClockTick ==
    /\ rs_clock < Len(GenTimestamps)
    /\ rs_clock' = rs_clock + 1
    /\ UNCHANGED <<rs_fs, rs_previous, rs_last>>
    /\ UNCHANGED notResolveVars

NextResolve == ResolveCall \/ ClockTick

SpecResolve == InitResolve /\ [][NextResolve]_vars

(***************************************************************************)
(* Properties of resolve_spec (SpecResolve).                               *)
(***************************************************************************)
\* The files of a repository that are spec candidates.
CandidateFiles(fs) ==
    {p \in {LatestSpecPath, "docs/specs/b.md", "examples/specs/a.md", "spec.md"} :
        fs[p] > 0}

Returned(call) == call.made /\ ~call.raised

\* C12 with the mode names as stated: the mode is one of provided,
\* discovered, generated, missing; no explicit path, no candidate and no
\* generation give mode `missing` and no path; an explicit existing file
\* gives mode `provided` and an empty candidate list.
C12_ModesAsStated ==
    Returned(rs_last) =>
        /\ rs_last.record.mode \in {"provided", "discovered", "generated", "missing"}
        /\ (rs_last.provided = "" /\ CandidateFiles(rs_last.fs_before) = {}
              /\ ~rs_last.gen_if_missing)
           => (rs_last.record.mode = "missing" /\ rs_last.path = "none")
        /\ rs_last.provided # ""
           => /\ rs_last.record.mode = "provided"
              /\ rs_last.record.discovered_candidates = <<>>

\* C12: the mode is one of provided, discovered, generated, missing_error;
\* no explicit path, no candidate and no generation give mode missing_error
\* and no path; an explicit existing file gives mode `provided`, that path,
\* and an empty candidate list whatever candidates exist.
C12_ResolutionModes ==
    Returned(rs_last) =>
        /\ rs_last.record.mode \in
              {"provided", "discovered", "generated", "missing_error"}
        /\ (rs_last.provided = "" /\ CandidateFiles(rs_last.fs_before) = {}
              /\ ~rs_last.gen_if_missing)
           => /\ rs_last.record.mode = "missing_error"
              /\ rs_last.path = "none"
              /\ rs_last.record.chosen_spec = "none"
        /\ rs_last.provided # ""
           => /\ rs_last.record.mode = "provided"
              /\ rs_last.path = rs_last.provided
              /\ rs_last.record.discovered_candidates = <<>>

\* An explicit file was given while candidates existed, after a call
\* without path, candidates or generation.
C12_Witness ==
    /\ Returned(rs_previous) /\ Returned(rs_last)
    /\ rs_previous.provided = "" /\ rs_previous.record.mode = "missing_error"
    /\ rs_last.provided = "notes/plan.md"
    /\ rs_last.record.mode = "provided"
    /\ rs_last.record.discovered_candidates = <<>>

C19_NewestCandidateChosen ==
    (/\ Returned(rs_last) /\ rs_last.provided = ""
     /\ CandidateFiles(rs_last.fs_before) # {})
    => LET fs == rs_last.fs_before
           chosen == rs_last.path
       IN  /\ chosen \in CandidateFiles(fs)
           /\ \A q \in CandidateFiles(fs) :
                 \/ fs[q] < fs[chosen]
                 \/ fs[q] = fs[chosen] /\ PathRank(chosen) <= PathRank(q)
           /\ SeqToSet(rs_last.record.discovered_candidates) = CandidateFiles(fs)
           /\ Len(rs_last.record.discovered_candidates)
                 = Cardinality(CandidateFiles(fs))
           /\ rs_last.record.chosen_spec = chosen
           /\ rs_last.record.mode = "discovered"

\* Two candidates of the same newest modification time and an older one:
\* the first of the two in path order is chosen.
C19_Witness ==
    /\ Returned(rs_last) /\ rs_last.provided = ""
    /\ rs_last.fs_before["docs/specs/b.md"] = rs_last.fs_before["spec.md"]
    /\ rs_last.fs_before["examples/specs/a.md"] > 0
    /\ rs_last.fs_before["examples/specs/a.md"] < rs_last.fs_before["spec.md"]
    /\ rs_last.fs_before[LatestSpecPath] = 0
    /\ rs_last.path = "docs/specs/b.md"
    /\ Len(rs_last.record.discovered_candidates) = 3

(***************************************************************************)
(* Planner failures (SpecSelection).                                       *)
(***************************************************************************)
\* The planner ran and printed something that is not a JSON object with an
\* add_experts array.
PlannerOutputInvalid ==
    /\ s_planner.kind = "stdout"
    /\ s_planner.payload \in {"none", "empty", "no_key", "not_list"}

PlannerParseFailure ==
    /\ s_planner.kind = "stdout"
    /\ s_planner.payload \in {"none", "empty", "not_list"}

\* C14: when the planner's output is not a JSON object with an add_experts
\* array, or the planner exits non-zero, _resolve_selection returns the
\* deterministic roster and a planner-failure note.
C14_PlannerFailureNoted ==
    (s_pc \in {"done", "raised"} /\ (s_planner.kind = "exit" \/ PlannerOutputInvalid))
    => /\ s_pc = "done"
       /\ s_final = s_selected
       /\ s_note # "none"

\* C15: whenever the planner cannot be started, times out, exits non-zero
\* or prints what cannot be parsed, _resolve_selection returns, and returns
\* the deterministic roster.
C15_PlannerFailureNeverAborts ==
    (s_pc \in {"done", "raised"}
       /\ (s_planner.kind \in {"raise", "exit"} \/ PlannerParseFailure))
    => /\ s_pc = "done"
       /\ s_final = s_selected

(***************************************************************************)
(* SpecRoute: one call of classify_and_route on every bounded pipeline     *)
(* result, report text and maximum.                                        *)
(***************************************************************************)
\* Step names of pipeline_result: steps of the table, a step the table
\* does not know and a row without name.
RouteStepNames ==
    {"frontend_bind", "backend_build", "fullstack_test_harness",
     "scaffold_verify", "lint", ""}

RouteRows == [step_name : RouteStepNames, status : {"pass", "fail"}]

RouteStepLists == UNION {[1..n -> RouteRows] : n \in 0..MaxSteps}

\* The keywords the lowered report text contains.
RouteTexts == SUBSET {"ui", "db", "docs"}

RouteMaxExperts == {0, 2, 3, 4, 7}

InitRoute ==
    /\ MergeIdle /\ SelectionIdle /\ AllowlistIdle /\ ExecutorIdle /\ RunIdle
    /\ ResolveIdle
    /\ rt_call \in [made : {FALSE}, structured : BOOLEAN, steps : RouteStepLists,
                    text : RouteTexts, max_experts : RouteMaxExperts]
    /\ ~rt_call.structured => rt_call.steps = <<>>
    /\ rt_routing = NoRouting

ClassifyAndRoute ==
    /\ ~rt_call.made
    /\ rt_call' = [rt_call EXCEPT !.made = TRUE]
    /\ rt_routing' = classify_and_route(PipelineSteps(rt_call), rt_call.text,
                                        rt_call.max_experts)
    /\ UNCHANGED notRouteVars

NextRoute == ClassifyAndRoute

SpecRoute == InitRoute /\ [][NextRoute]_vars

(***************************************************************************)
(* Properties of classify_and_route (SpecRoute).                           *)
(***************************************************************************)
\* The roles of the failed, named steps, step after step.
RECURSIVE FailedStepRoles(_)
FailedStepRoles(steps) ==
    IF steps = <<>> THEN <<>>
    ELSE (IF Head(steps).status = "fail"
          THEN _STEP_TO_EXPERTS(Head(steps).step_name) ELSE <<>>)
         \o FailedStepRoles(Tail(steps))

\* The roles of the keywords of the text, in the order of the table.
KeywordRoles(text) ==
    LET Hit(i) == _KEYWORD_TO_EXPERT[i][1] \in text
        hits == {i \in 1..Len(_KEYWORD_TO_EXPERT) : Hit(i)}
        RECURSIVE Collect(_)
        Collect(i) ==
            IF i > Len(_KEYWORD_TO_EXPERT) THEN <<>>
            ELSE (IF i \in hits THEN <<_KEYWORD_TO_EXPERT[i][2]>> ELSE <<>>)
                 \o Collect(i + 1)
    IN  Collect(1)

\* Required roles, step roles, keyword roles; first occurrences only.
RoutedUntruncated(call) ==
    AppendNew(<<>>, <<"SecurityExpert", "TestingExpert">>
                    \o FailedStepRoles(call.steps) \o KeywordRoles(call.text))

RoutedAsStated(call) ==
    SubSeq(RoutedUntruncated(call), 1,
           Min(Len(RoutedUntruncated(call)), Max(call.max_experts, 2)))

FrontendBindFailed(call) ==
    \E i \in 1..Len(call.steps) :
        call.steps[i] = [step_name |-> "frontend_bind", status |-> "fail"]

\* C16 as stated: the routing is the required roles, the roles of the
\* failed steps in step order and the keyword roles, first occurrences
\* only, cut to max(max_experts, 2); and whenever frontend_bind failed it
\* holds FrontendExpert after the two required roles.
C16_RoutingAsStated ==
    rt_call.made =>
        /\ rt_routing.experts = RoutedAsStated(rt_call)
        /\ FrontendBindFailed(rt_call) =>
              /\ RequiredFirst(rt_routing.experts)
              /\ InSeq("FrontendExpert", rt_routing.experts)

\* C16: the routing is the required roles, the roles of the failed steps in
\* step order and the keyword roles, first occurrences only, cut to
\* max(max_experts, 2); when frontend_bind failed the required roles come
\* first and FrontendExpert is in the routing exactly when its place in the
\* uncut list is within max(max_experts, 2), which it is when frontend_bind
\* is the first row and max_experts is 3 or more.
C16_RoutingOrderAndCut ==
    rt_call.made =>
        /\ rt_routing.experts = RoutedAsStated(rt_call)
        /\ FrontendBindFailed(rt_call) =>
              /\ RequiredFirst(rt_routing.experts)
              /\ InSeq("FrontendExpert", rt_routing.experts)
                 <=> \E i \in 1..Max(rt_call.max_experts, 2) :
                        /\ i <= Len(RoutedUntruncated(rt_call))
                        /\ RoutedUntruncated(rt_call)[i] = "FrontendExpert"
              /\ (rt_call.steps[1].step_name = "frontend_bind"
                    /\ rt_call.steps[1].status = "fail"
                    /\ rt_call.max_experts >= 3)
                 => rt_routing.experts[3] = "FrontendExpert"

\* frontend_bind failed after backend_build, a keyword hinted at a further
\* role, and the cut dropped a role.
C16_Witness ==
    /\ rt_call.made
    /\ Len(rt_call.steps) = 2
    /\ rt_call.steps[1] = [step_name |-> "backend_build", status |-> "fail"]
    /\ rt_call.steps[2] = [step_name |-> "frontend_bind", status |-> "fail"]
    /\ rt_call.text = {"docs"}
    /\ rt_call.max_experts = 4
    /\ rt_routing.experts =
          <<"SecurityExpert", "TestingExpert", "BackendExpert", "DBExpert">>

(***************************************************************************)
(* The summary of a run (SpecRun).  run.summary is the reason or status    *)
(* written to summary.json; every place that writes it copies the run      *)
(* directory over `latest` in the next statement.                          *)
(***************************************************************************)
\* C17: every run that has ended, whichever way, has written summary.json
\* and replaced the latest directory.
C17_SummaryAlwaysWritten ==
    RunTerminated => run.summary # "none"

(***************************************************************************)
(* Batches and their results (SpecExecutor).                               *)
(***************************************************************************)
\* The list holds one result for each worker of the batch and no other.
OneResultPerAssignment(results, workers) ==
    /\ Len(results) = Len(workers)
    /\ \A i \in 1..Len(workers) :
          Cardinality({k \in 1..Len(results) :
                         results[k].expert = workers[i].role}) = 1

SortedByRoleName(results) ==
    \A k \in 1..(Len(results) - 1) :
        ExpertRank(results[k].expert) < ExpertRank(results[k + 1].expert)

ExecuteAssignmentsRaised == e_call \in {"raised", "cancelling", "run_raised"}

\* C18: for every batch and every order in which its workers end,
\* execute_assignments returns, never raises, and what it returns is one
\* result per assignment, sorted by role name.
C18_OneResultPerAssignmentSorted ==
    /\ ~ExecuteAssignmentsRaised
    /\ e_call = "returned" =>
          /\ OneResultPerAssignment(e_results[e_phase], e_workers)
          /\ SortedByRoleName(e_results[e_phase])

\* The batch of a phase returned: its results are those of its roles.
BatchReturned(phase) ==
    /\ Len(e_results[phase]) = Len(BatchRoles(phase, e_roster))
    /\ \A k \in 1..Len(e_results[phase]) :
          InSeq(e_results[phase][k].expert, BatchRoles(phase, e_roster))

\* C20: an iteration runs SecurityExpert alone, then the other roles of the
\* roster together, then SecurityExpert alone again, each batch after the
\* one before has returned, and never ends before the third has returned;
\* the Integrator is called only after all three have returned.
C20_SecuritySandwich ==
    /\ e_phase # "aborted"
    /\ e_phase \in {"pre", "post"} =>
          /\ Len(e_workers) = 1
          /\ e_workers[1].role = "SecurityExpert"
    /\ e_phase = "pre" => e_results.mid = <<>> /\ e_results.post = <<>>
    /\ e_phase = "mid" =>
          /\ BatchReturned("pre")
          /\ e_results.post = <<>>
          /\ Len(e_workers) = Len(e_roster) - 1
          /\ \A i \in Workers :
                /\ e_workers[i].role # "SecurityExpert"
                /\ InSeq(e_workers[i].role, e_roster)
    /\ e_phase = "post" => BatchReturned("pre") /\ BatchReturned("mid")
    /\ e_phase = "merge" =>
          BatchReturned("pre") /\ BatchReturned("mid") /\ BatchReturned("post")
    /\ e_merge_input # <<>> =>
          /\ e_phase = "merge"
          /\ e_merge_input = e_results.pre \o e_results.mid \o e_results.post

(***************************************************************************)
(* Batches and iterations one after the other (SpecExecutor).              *)
(***************************************************************************)
BatchStarts == e_workers' # e_workers /\ (e_phase' # e_phase \/ e_iter' # e_iter)

\* C21: a batch starts, all its workers not yet started, only when every
\* worker of the batch before has returned and left no process or worktree;
\* an iteration starts only when the router of the iteration before has
\* returned, after its integration and gate; no worker runs while the
\* integration, the gate or the router does.
C21_NoOverlap ==
    /\ [](e_call \in {"done", "merging", "gating", "routing", "ended"} =>
            \A i \in Workers :
                /\ e_workers[i].pc = "returned"
                /\ e_workers[i].proc # "alive")
    /\ [][/\ BatchStarts =>
               /\ \A i \in Workers :
                     /\ e_workers[i].pc = "returned"
                     /\ e_workers[i].proc # "alive"
                     /\ ~e_workers[i].worktree
               /\ \A i \in 1..Len(e_workers') : e_workers'[i].pc = "new"
          /\ e_iter' # e_iter =>
               /\ e_call = "routing"
               /\ e_iter' = e_iter + 1
               /\ e_phase = "merge" /\ e_phase' = "pre"
          /\ e_call' = "routing" /\ e_call # "routing" => e_call = "gating"
          /\ e_call' = "gating" /\ e_call # "gating" => e_call = "merging"]_vars

\* The parallel batch of a second iteration is running, two workers at once.
C21_Witness ==
    /\ e_iter = 2
    /\ e_phase = "mid"
    /\ Len(e_workers) = 2
    /\ \A i \in Workers : e_workers[i].pc = "running"

(***************************************************************************)
(* The integration worktree (SpecRun).                                     *)
(***************************************************************************)
IntegrationChanges ==
    \/ run'.integration.dirty # run.integration.dirty
    \/ run'.integration.head # run.integration.head

\* C22: the files and the branch of the integration worktree change only
\* in the Integrator's patch application and in the commit that follows,
\* in no other step of the run.
C22_OnlyIntegratorChangesWorkspace ==
    [][IntegrationChanges => run.pc \in {"integrate", "integrated"}]_vars

\* The patched files of the integration worktree that no commit holds.
UncommittedPatches(r) == r.integration.dirty \cap RunFiles

\* C23: when integration applied at least one patch and the gate did not
\* end the run, the applied changes were committed in the integration
\* workspace before the gate ran, and the base of the next iteration's
\* workers is that commit, so it holds every patch applied so far.
C23_AppliedPatchesCommitted ==
    /\ (run.pc = "route" /\ run.applied_to_integration # <<>>) =>
          /\ UncommittedPatches(run) = {}
          /\ run.base_ref = run.integration.head
          /\ run.integration.head >= 1
    /\ (run.pc = "batch" /\ run.iteration >= 2) =>
          /\ UncommittedPatches(run) = {}
          /\ BatchBaseRef(run) = run.integration.head

\* C24: within one iteration the three batches are given the same base
\* revision, no batch changes the integration workspace (so the post
\* security pass does not see the parallel batch's changes), and the base
\* revision changes only in the step from integration to the gate.
C24_OneBasePerIteration ==
    /\ [](run.pc \in {"batch", "integrate", "integrated"} =>
            /\ \A k \in 1..Len(run.batch_bases) :
                  run.batch_bases[k] = run.base_ref
            /\ run.pc # "batch" => Len(run.batch_bases) = 3)
    /\ [][/\ run.pc = "batch" =>
                /\ run'.integration = run.integration
                /\ run'.base_ref = run.base_ref
          /\ run'.base_ref # run.base_ref =>
                run.pc = "integrated" /\ run'.pc = "gate"]_vars

C24_Witness ==
    /\ run.pc = "integrate"
    /\ run.iteration = 2
    /\ run.batch_bases = <<1, 1, 1>>
    /\ \E i \in 1..Len(run.all_results) : run.all_results[i].changed_files # {}

\* The last entry of iteration_records.
LastRecord(r) == r.iteration_records[Len(r.iteration_records)]

\* C25: an integration outcome of fail ends the run as failed with reason
\* max_diff_lines_exceeded; that step makes no commit and leaves the base
\* revision alone, the gate and the router of the iteration are not run,
\* and no further iteration starts.
C25_BudgetFailureEndsRun ==
    /\ [][(/\ run.pc = "integrated" /\ run'.pc # "integrated"
           /\ run.integration_outcome.status = "fail") =>
             /\ run'.pc = "summary"
             /\ run'.final_status = "fail"
             /\ run'.integration = run.integration
             /\ run'.base_ref = run.base_ref
             /\ run'.gate = NoGate
             /\ run'.iteration_records =
                  Append(run.iteration_records,
                         IterationRecord(run.iteration,
                             "max_diff_lines_exceeded", "none", "fail"))]_vars
    /\ []((/\ run.pc \in {"summary", "exited"}
           /\ run.integration_outcome.status = "fail") =>
             /\ Len(run.iteration_records) = run.iteration
             /\ LastRecord(run).reason = "max_diff_lines_exceeded"
             /\ LastRecord(run).iteration = run.iteration
             /\ run.gate = NoGate
             /\ run.final_status = "fail"
             /\ run.pc = "exited" => run.summary = "fail" /\ run.exit_code = 1)

C25_Witness ==
    /\ run.pc = "exited"
    /\ run.integration_outcome.status = "fail"
    /\ run.iteration = 2
    /\ run.max_iterations = 2
    /\ run.integration.head = 1
    /\ run.exit_code = 1

\* The steps of an iteration that has passed the elapsed-time check.
InIteration(r) == r.pc \in {"batch", "integrate", "integrated", "gate"}

\* The run has a record with reason time_budget_exceeded as its last one.
EndedOverBudget(r) ==
    /\ r.iteration_records # <<>>
    /\ LastRecord(r).reason = "time_budget_exceeded"

\* C26: the elapsed time is looked at only when an iteration starts; over
\* the budget there, the run ends as failed with reason
\* time_budget_exceeded and no batch of that iteration runs; once past the
\* check an iteration goes on to integration and the gate although the
\* budget is exceeded meanwhile, and ends only by what integration or the
\* gate returns.
C26_TimeCheckedAtIterationStartOnly ==
    /\ [][(/\ run.pc = "loop" /\ run'.pc # "loop"
           /\ run.iteration < run.max_iterations /\ run.over_time) =>
             /\ run'.pc = "summary"
             /\ run'.final_status = "fail"
             /\ run'.iteration_records =
                  Append(run.iteration_records,
                         IterationRecord(run.iteration + 1,
                             "time_budget_exceeded", "none", "none"))
             /\ run'.batch_bases = <<>>
             /\ run'.all_results = <<>>
             /\ run'.integration = run.integration]_vars
    /\ [][(InIteration(run) /\ run'.pc # run.pc) =>
             /\ ~EndedOverBudget(run')
             /\ run'.pc \in {"batch", "integrate", "integrated", "gate",
                             "route", "summary", "crashed"}
             /\ run'.pc = "summary" =>
                  \/ run.pc = "integrated" /\ IntegrationFailed(run.integration_outcome)
                  \/ run.pc = "gate" /\ run'.gate.status = "pass"
             /\ run'.pc = "crashed" => run.pc = "batch"
             /\ run'.over_time = run.over_time]_vars
    /\ [](EndedOverBudget(run) =>
             /\ run.pc \in {"summary", "exited"}
             /\ run.batch_bases = <<>>
             /\ run.final_status = "fail"
             /\ run.pc = "exited" => run.exit_code = 1)

C26_Witness ==
    /\ run.pc = "exited"
    /\ EndedOverBudget(run)
    /\ run.iteration = 2
    /\ Len(run.iteration_records) = 2
    /\ run.iteration_records[1].gate_status = "fail"
    /\ run.integration.head = 1

C26_InProgressWitness ==
    /\ run.pc = "route"
    /\ run.over_time
    /\ run.gate.status = "fail"
    /\ run.iteration = 1

\* The most iterations a run with these arguments may make.
IterationBound(args) == Max(0, IF args.autofix THEN args.max_iterations ELSE 1)

\* run_swarm reached its loop (line 381 has set final_status).
LoopEntered(r) == r.final_status # "none"

\* The place of a step in run_swarm, later steps lower.
RunStepRank(r) ==
    CASE r.pc = "resolve" -> 12
      [] r.pc = "select" -> 11
      [] r.pc = "prepare" -> 10
      [] r.pc = "batch" -> (CASE r.phase = "pre" -> 9
                              [] r.phase = "mid" -> 8
                              [] OTHER -> 7)
      [] r.pc = "integrate" -> 6
      [] r.pc = "integrated" -> 5
      [] r.pc = "gate" -> 4
      [] r.pc = "route" -> 3
      [] r.pc = "loop" -> 2
      [] r.pc = "summary" -> 1
      [] OTHER -> 0

\* A natural number that every step of run_swarm lowers: the iterations
\* left, then the steps left in the iteration, then the clock.
RunRank(r) ==
    LET left == IF LoopEntered(r) /\ r.pc # "prepare"
                THEN IterationBound(r.args) - r.iteration
                ELSE IterationBound(r.args) + 1
    IN  (left * 13 + RunStepRank(r)) * 2 + (IF r.over_time THEN 0 ELSE 1)

\* run_swarm makes no more iterations than its bound and terminates.
RunTerminatesWithinBound ==
    /\ [](run.iteration <= IterationBound(run.args))
    /\ [](RunRank(run) >= 0)
    /\ [][RunRank(run') < RunRank(run)]_vars

\* C27: run_swarm makes at most max_iterations iterations with autofix and
\* at most one without, takes finitely many steps, and when it has
\* terminated after entering the loop without a passing gate (also with a
\* bound of zero or less) it has ended as failed with exit code 1.
C27_BoundedIterationsThenExit1 ==
    /\ RunTerminatesWithinBound
    /\ []((RunTerminated /\ LoopEntered(run) /\ run.gate.status # "pass") =>
            /\ run.final_status = "fail"
            /\ run.summary = "fail"
            /\ run.exit_code = 1)

\* The same for the runs that return.
C27_ReturningRuns ==
    /\ RunTerminatesWithinBound
    /\ []((run.pc = "exited" /\ LoopEntered(run) /\ run.gate.status # "pass") =>
            /\ run.final_status = "fail"
            /\ run.summary = "fail"
            /\ run.exit_code = 1)

\* The required roles followed by the roles of the conflicts, each once,
\* cut to max(max_experts, 2).
ConflictRoster(conflicts, max_experts) ==
    PyPrefix(AppendNew(<<"SecurityExpert", "TestingExpert">>,
                       ConflictExperts(conflicts)),
             Max(max_experts, 2))

\* C28: the step after a failed gate sets the next roster to the router's
\* role list when integration recorded no conflict, and otherwise to the
\* required roles followed by the conflicting roles (each once, cut to
\* max(max_experts, 2)), whatever the router returned.
C28_NextRosterAfterFailedGate ==
    [][(run.pc = "route" /\ run'.pc = "loop") =>
          /\ run.gate.status = "fail"
          /\ run'.routed_experts =
               IF run.integration_outcome.conflicts = <<>>
               THEN classify_and_route(run.gate.steps, run.gate.text,
                                       run.args.max_experts).experts
               ELSE ConflictRoster(run.integration_outcome.conflicts,
                                   run.args.max_experts)]_vars

C28_Witness ==
    /\ run.pc = "batch"
    /\ run.iteration = 2
    /\ run.roster_source = "conflicts"
    /\ Len(run.routed_experts) = 3
    /\ \E i \in 1..Len(run.routed_experts) :
          run.routed_experts[i] \notin {"SecurityExpert", "TestingExpert"}

(***************************************************************************)
(* The workers' worktrees and the tool invocations (SpecExecutor).         *)
(***************************************************************************)
\* The worktree directory of the i-th worker of the batch under way.
WorkerDir(i) == WorktreeDir(BatchId(e_iter, e_phase), e_workers[i].role)

PhaseIndex(phase) == IF phase = "pre" THEN 1 ELSE IF phase = "mid" THEN 2 ELSE 3

\* The batches run_swarm has started before the one under way.
EarlierBatches ==
    {b \in (1..e_iter) \X {"pre", "mid", "post"} :
        b[1] < e_iter \/ PhaseIndex(b[2]) < PhaseIndex(e_phase)}

ToolPending(w) == w.pc = "running" \/ w.proc = "alive"

\* C30: a worker starts the tool at most twice; the second start happens
\* exactly when the first invocation returned non-zero with the
\* unsupported-flag error; a timeout or another exit of the first
\* invocation, and whatever the second invocation returns, is final.
C30_AtMostOneFallback ==
    \A i \in Workers :
        LET w == e_workers[i]
        IN  /\ w.attempts <= 2
            /\ Len(w.exits) <= w.attempts
            /\ w.attempts = 2 <=>
                 (w.exits # <<>> /\ w.exits[1] = "unsupported_flag")
            /\ (w.exits # <<>> /\ w.exits[1] # "unsupported_flag") =>
                 Len(w.exits) = 1 /\ ~ToolPending(w)
            /\ Len(w.exits) = 2 => ~ToolPending(w)

C30_Witness ==
    \E i \in Workers :
        /\ e_workers[i].exits = <<"unsupported_flag", "unsupported_flag">>
        /\ e_workers[i].attempts = 2
        /\ e_workers[i].pc = "returned"
        /\ e_workers[i].result.status = "fail"

C30_TimeoutWitness ==
    \E i \in Workers :
        /\ e_workers[i].exits = <<"timeout">>
        /\ e_workers[i].attempts = 1
        /\ e_workers[i].pc = "returned"

(***************************************************************************)
(* Dry-run mode.                                                           *)
(***************************************************************************)
\* A simulated worker result: pass, no changed files, change-size 0.
SimulatedResult(r) ==
    r.status = "pass" /\ r.changed_files = {} /\ r.diff_line_count = 0

\* The frame of a dry run: no integration worktree, nothing applied or
\* committed, simulated worker results, every role skipped by the merge,
\* and no gate but the simulated one.
DryRunFrame ==
    run.args.dry_run =>
        /\ run.integration = NoIntegration
        /\ run.base_ref = 0
        /\ run.applied_to_integration = <<>>
        /\ \A k \in 1..Len(run.all_results) : SimulatedResult(run.all_results[k])
        /\ run.integration_outcome # NoOutcome =>
              /\ run.integration_outcome.status = "pass"
              /\ run.integration_outcome.applied = <<>>
              /\ run.integration_outcome.conflicts = <<>>
              /\ run.integration_outcome.diff_lines = 0
              /\ Len(run.integration_outcome.skipped) >= 2
        /\ run.gate \in {NoGate, SimulatedGate}

\* A dry run with a resolved spec, an allowed iteration and a time budget
\* not exceeded at the first check has terminated.
DryRunOver ==
    /\ run.args.dry_run
    /\ RunTerminated
    /\ run.spec_path # "none"
    /\ IterationBound(run.args) >= 1
    /\ ~EndedOverBudget(run)

\* C31: a dry run allocates no workspace, applies and commits nothing, has
\* only simulated pass results, which the merge skips with status pass and
\* diff_lines 0, passes the simulated gate and, with a resolved spec, an
\* allowed iteration and the time budget kept at the first check, ends
\* successfully after exactly one iteration.
C31_DryRunPassesInOneIteration ==
    /\ DryRunFrame
    /\ DryRunOver =>
          /\ run.exit_code = 0
          /\ run.final_status = "pass"
          /\ run.iteration = 1
          /\ run.gate = SimulatedGate

\* The same for the dry runs that return.
C31_ReturningDryRuns ==
    /\ DryRunFrame
    /\ (DryRunOver /\ run.pc = "exited") =>
          /\ run.exit_code = 0
          /\ run.final_status = "pass"
          /\ run.iteration = 1
          /\ run.gate = SimulatedGate

\* The workers of a dry batch: no worktree, no start of the tool, a
\* simulated result.
C31_DryWorkers ==
    e_dry =>
        \A i \in Workers :
            /\ ~e_workers[i].worktree
            /\ e_workers[i].attempts = 0
            /\ e_workers[i].proc = "none"
            /\ e_workers[i].pc = "returned" => SimulatedResult(e_workers[i].result)

(***************************************************************************)
(* merge_expert_results: what becomes of each result (SpecMerge).          *)
(***************************************************************************)
\* The roles the loop has given the fate `fate`, in visiting order.
RECURSIVE RolesWithFate(_, _)
RolesWithFate(log, fate) ==
    IF log = <<>> THEN <<>>
    ELSE (IF Head(log).fate = fate THEN <<Head(log).result.expert>> ELSE <<>>)
         \o RolesWithFate(Tail(log), fate)

\* The files of the results applied before the k-th visit.
FilesAppliedBefore(log, k) ==
    UNION {log[j].result.changed_files :
              j \in {i \in 1..(k - 1) : log[i].fate = "applied"}}

\* The results of a sequence as a bag.
ResultBag(s) ==
    [r \in {s[i] : i \in 1..Len(s)} |->
        Cardinality({i \in 1..Len(s) : s[i] = r})]

\* C32: when merge_expert_results returns, every input result has been
\* visited once and its role is in exactly one of applied, skipped and
\* conflicts; a result that is not pass or has no changed files is skipped
\* and not handed to apply_patch; a role is applied only for a pass result
\* with changed files that overlap no earlier-applied file and whose
\* apply_patch call succeeded.
C32_EveryResultHasOneFate ==
    m_pc = "done" =>
        LET log == m_acc.log
        IN  /\ ResultBag([k \in 1..Len(log) |-> log[k].result]) = ResultBag(m_results)
            /\ Len(m_outcome.applied) + Len(m_outcome.skipped)
                 + Len(m_outcome.conflicts) = Len(m_results)
            /\ m_outcome.applied = RolesWithFate(log, "applied")
            /\ m_outcome.skipped = RolesWithFate(log, "skipped")
            /\ \A k \in 1..Len(log) :
                 LET r == log[k].result
                 IN  /\ (r.status # "pass" \/ r.changed_files = {}) =>
                          log[k].fate = "skipped"
                     /\ log[k].fate = "applied" =>
                          /\ r.status = "pass"
                          /\ r.changed_files # {}
                          /\ r.changed_files \cap FilesAppliedBefore(log, k) = {}
                     /\ log[k].fate \in {"overlap", "apply_failed"} =>
                          \E c \in 1..Len(m_outcome.conflicts) :
                              m_outcome.conflicts[c].expert = r.expert

C32_Witness ==
    /\ m_pc = "done"
    /\ Len(m_results) = 3
    /\ Len(m_outcome.applied) = 1
    /\ Len(m_outcome.skipped) = 1
    /\ Len(m_outcome.conflicts) = 1
    /\ \E k \in 1..3 : m_results[k].status = "pass" /\ m_results[k].changed_files = {}

(***************************************************************************)
(* SpecMergeOrder: merge_expert_results called on every ordering of the    *)
(* same results, with an apply_patch whose answer depends on the result    *)
(* only.  m_outcome maps each ordering to the outcome returned for it.     *)
(***************************************************************************)
\* The longest result list whose orderings are compared.
OrderLen == Min(MaxResults, 3)

\* For each role a failed result and passing results that change one
\* file or the other, with 50 or 100 changed lines.
OrderInputs ==
    {ExpertResult(e, s[1], s[2], s[3], s[4]) :
        e \in MergeRoles,
        s \in { <<"fail", {"swarm_skills/a.py"}, TRUE, 100>>,
                <<"pass", {"swarm_skills/a.py"}, TRUE, 50>>,
                <<"pass", {"swarm_skills/b.py"}, TRUE, 100>> }}

\* The orderings of a result list.
Orderings(results) ==
    {[k \in 1..Len(results) |-> results[p[k]]] :
        p \in {q \in [1..Len(results) -> 1..Len(results)] :
                 \A i, j \in 1..Len(results) : q[i] = q[j] => i = j}}

\* What apply_patch returns, in visiting order, when it fails exactly for
\* the results in `failing`.
ApplyAnswers(results, failing) ==
    [k \in 1..Len(results) |-> SortedByExpert(results)[k] \notin failing]

InitMergeOrder ==
    /\ SelectionIdle /\ AllowlistIdle /\ ExecutorIdle /\ RunIdle /\ ResolveIdle /\ RouteIdle
    /\ m_results \in UNION {[1..n -> OrderInputs] : n \in 0..OrderLen}
    /\ m_max \in Budgets
    /\ m_pc = "call"
    /\ m_todo = <<>>
    /\ m_acc = MergeStart
    /\ m_outcome = NoOutcome

\* One call of merge_expert_results for each ordering of m_results.
MergeEveryOrdering ==
    /\ m_pc = "call"
    /\ \E failing \in SUBSET {m_results[k] : k \in 1..Len(m_results)} :
          m_outcome' =
              [p \in Orderings(m_results) |->
                  merge_expert_results(p, m_max, ApplyAnswers(p, failing)).outcome]
    /\ m_pc' = "done"
    /\ UNCHANGED <<m_results, m_max, m_todo, m_acc, notMergeVars>>

NextMergeOrder == MergeEveryOrdering

SpecMergeOrder == InitMergeOrder /\ [][NextMergeOrder]_vars

\* The results of `role` in the order they have in `results`.
RECURSIVE OfRole(_, _)
OfRole(results, role) ==
    IF results = <<>> THEN <<>>
    ELSE (IF Head(results).expert = role THEN <<Head(results)>> ELSE <<>>)
         \o OfRole(Tail(results), role)

\* The ordering p keeps the results of each role in the order of `results`.
KeepsRoleOrder(p, results) ==
    \A role \in MergeRoles : OfRole(p, role) = OfRole(results, role)

\* C33 as stated: the outcome is the same for every ordering of the same
\* input results.
C33_SameOutcomeForEveryOrdering ==
    m_pc = "done" =>
        \A p \in Orderings(m_results) : m_outcome[p] = m_outcome[m_results]

\* C33: the outcome of merge_expert_results is the same for every ordering
\* of the same input results that keeps the results of one role in their
\* relative order, and so for every ordering when no role has two results.
C33_SameOutcomeUpToRoleOrder ==
    m_pc = "done" =>
        \A p \in Orderings(m_results) :
            KeepsRoleOrder(p, m_results) => m_outcome[p] = m_outcome[m_results]

C33_Witness ==
    /\ m_pc = "done"
    /\ Len(m_results) = 3
    /\ \E p \in Orderings(m_results) :
          /\ p # m_results
          /\ KeepsRoleOrder(p, m_results)
          /\ m_outcome[p].status = "conflict"
          /\ Len(m_outcome[p].applied) = 1
    /\ \A i, j \in 1..3 : m_results[i].expert = m_results[j].expert => i = j

\* The loop body has just recorded a failed apply_patch call.
ApplyJustFailed ==
    /\ Len(m_acc'.log) = Len(m_acc.log) + 1
    /\ m_acc'.log[Len(m_acc'.log)].fate = "apply_failed"

\* C34: when apply_patch fails for a role, the loop appends a conflict for
\* that role with reason apply_failed and the failure detail, leaves
\* applied, the applied files and the change-size total as they were, and
\* goes on with the next result.
C34_ApplyFailureIsConflict ==
    [][ApplyJustFailed =>
          /\ m_acc'.conflicts =
               Append(m_acc.conflicts,
                      [expert |-> Head(m_todo).expert, reason |-> "apply_failed",
                       detail |-> m_acc'.conflicts[Len(m_acc'.conflicts)].detail,
                       files |-> Head(m_todo).changed_files])
          /\ m_acc'.conflicts[Len(m_acc'.conflicts)].detail \in ApplyDetails
          /\ m_acc'.applied = m_acc.applied
          /\ m_acc'.skipped = m_acc.skipped
          /\ m_acc'.touched_files = m_acc.touched_files
          /\ m_acc'.diff_lines = m_acc.diff_lines
          /\ m_todo' = Tail(m_todo)
          /\ m_pc' = "loop"]_vars

C34_Witness ==
    /\ m_pc = "done"
    /\ Len(m_acc.log) = 2
    /\ m_acc.log[1].fate = "apply_failed"
    /\ m_acc.log[2].fate = "applied"
    /\ m_acc.log[1].result.changed_files \cap m_acc.log[2].result.changed_files # {}
    /\ m_outcome.status = "conflict"
    /\ m_outcome.diff_lines = m_acc.log[2].result.diff_line_count

(***************************************************************************)
(* The planner's additions (SpecSelection).                                *)
(***************************************************************************)
\* The optional roles in their priority order.
OptionalPriority ==
    <<"BackendExpert", "FrontendExpert", "DBExpert", "DevOpsExpert", "DocsExpert">>

\* The members of `order` that are in `names` and not in `roster`, in the
\* order of `order`.
RECURSIVE NewInPriority(_, _, _)
NewInPriority(order, names, roster) ==
    IF order = <<>> THEN <<>>
    ELSE (IF Head(order) \in names /\ ~InSeq(Head(order), roster)
          THEN <<Head(order)>> ELSE <<>>)
         \o NewInPriority(Tail(order), names, roster)

\* The planner answered with a JSON object whose add_experts is a list.
PlannerSucceeded ==
    /\ s_pc = "done"
    /\ s_planner # NoPlanner
    /\ s_planner.kind = "stdout" /\ s_planner.payload = "list"

\* C35: after a successful planner response the augmented roster is the
\* deterministic roster followed by the planner-named optional roles not
\* yet in it, in the order Backend, Frontend, DB, DevOps, Docs.  That
\* roster is a function of the set of optional roles the planner named, so
\* it is the same for every order and repetition of the names, and names
\* that are no optional role are ignored.  The final roster is that roster
\* cut to max(max_experts, 2), so it still starts with the deterministic
\* roster.
C35_PlannerOnlyAppendsInPriorityOrder ==
    PlannerSucceeded =>
        LET aug == planner_augment_experts(s_selected, s_planner)
            named == SeqToSet(s_planner.names)
        IN  /\ aug.note = "none" /\ s_note = "none"
            /\ aug.experts =
                 s_selected \o NewInPriority(OptionalPriority, named, s_selected)
            /\ s_final = PyPrefix(aug.experts, Max(s_args.max_experts, 2))
            /\ SubSeq(s_final, 1, Len(s_selected)) = s_selected

C35_Witness ==
    /\ PlannerSucceeded
    /\ s_planner.names = <<"DocsExpert", "BackendExpert">>
    /\ s_selected = <<"SecurityExpert", "TestingExpert", "FrontendExpert">>
    /\ s_final = <<"SecurityExpert", "TestingExpert", "FrontendExpert",
                   "BackendExpert", "DocsExpert">>

C35_IgnoredNameWitness ==
    /\ PlannerSucceeded
    /\ s_planner.names = <<"QAExpert", "DBExpert">>
    /\ ~InSeq("DBExpert", s_selected)
    /\ s_final = Append(s_selected, "DBExpert")

(***************************************************************************)
(* The routing reason (SpecRoute).                                         *)
(***************************************************************************)
\* A keyword of the table occurs in the report text.
KeywordMatched(call) ==
    \E k \in 1..Len(_KEYWORD_TO_EXPERT) : _KEYWORD_TO_EXPERT[k][1] \in call.text

\* A row of the structured result has status fail and a step name.
NamedStepFailed(call) ==
    /\ call.structured
    /\ \E i \in 1..Len(call.steps) :
          call.steps[i].status = "fail" /\ call.steps[i].step_name # ""

\* C36: classify_and_route returns reason unknown_failure if no structured
\* gate result was available and no keyword matched the report text, and
\* pipeline_failure in every other case.
C36_ReasonAsStated ==
    rt_call.made =>
        /\ rt_routing.reason \in {"unknown_failure", "pipeline_failure"}
        /\ rt_routing.reason = "unknown_failure"
             <=> (~rt_call.structured /\ ~KeywordMatched(rt_call))

\* What the code does: unknown_failure exactly when no row with a step
\* name failed and no keyword matched.
C36_ReasonByFailedSteps ==
    rt_call.made =>
        /\ rt_routing.reason \in {"unknown_failure", "pipeline_failure"}
        /\ rt_routing.reason = "unknown_failure"
             <=> (~NamedStepFailed(rt_call) /\ ~KeywordMatched(rt_call))

(***************************************************************************)
(* SpecGate: _run_pipeline_gate on one response of the pipeline command,   *)
(* then lines 500-529 of run_swarm.  rt_call holds the response, rt_routing *)
(* the gate status, the steps handed on and the routing of a failed gate.  *)
(***************************************************************************)
\* What the pipeline command can answer: its exit code, the kind of its
\* stdout ("empty", "not_json", "not_object", or a JSON "object" with
\* keys), and for an object the values of overall_status and status
\* ("absent": missing, null or empty) and its steps.
GateResponses ==
    [made : {FALSE}, returncode : {0, 1},
     kind : {"empty", "not_json", "not_object", "object"},
     overall_status : {"absent", "pass", "warn", "fail"},
     status : {"absent", "pass", "fail"},
     steps : {<<>>, <<[step_name |-> "frontend_bind", status |-> "fail"]>>},
     text : {{}, {"docs"}}, max_experts : {3}]

PayloadTruthy(resp) == resp.kind = "object"

_run_pipeline_gate_by_exit_code(resp) ==
    IF resp.returncode = 0 THEN "pass" ELSE "fail"

\* Lines 172-179: the gate status.
_run_pipeline_gate(resp) ==
    IF PayloadTruthy(resp) /\ resp.overall_status = "pass" THEN "pass"
    ELSE IF resp.returncode = 0 /\ PayloadTruthy(resp)
    THEN LET status == IF resp.overall_status # "absent" THEN resp.overall_status
                       ELSE IF resp.status # "absent" THEN resp.status
                       ELSE "fail"
         IN  IF status = "pass" THEN "pass" ELSE "fail"
    ELSE "fail"

\* Line 500: gate_payload or {"overall_status": gate_status, "steps": []}.
GatePayloadSteps(resp) == IF PayloadTruthy(resp) THEN resp.steps ELSE <<>>

InitGate ==
    /\ MergeIdle /\ SelectionIdle /\ AllowlistIdle /\ ExecutorIdle /\ RunIdle
    /\ ResolveIdle
    /\ rt_call \in GateResponses
    /\ rt_call.kind # "object" =>
          /\ rt_call.overall_status = "absent" /\ rt_call.status = "absent"
          /\ rt_call.steps = <<>>
    /\ rt_routing = NoRouting

\* The gate of one iteration and, when it did not pass, the router.
GateThenRoute ==
    /\ ~rt_call.made
    /\ rt_call' = [rt_call EXCEPT !.made = TRUE]
    /\ rt_routing' =
         [gate_status |-> _run_pipeline_gate(rt_call),
          steps |-> GatePayloadSteps(rt_call),
          routing |-> IF _run_pipeline_gate(rt_call) = "pass" THEN NoRouting
                      ELSE classify_and_route(GatePayloadSteps(rt_call),
                                              rt_call.text, rt_call.max_experts)]
    /\ UNCHANGED notRouteVars

NextGate == GateThenRoute

SpecGate == InitGate /\ [][NextGate]_vars

\* A response that is empty, no JSON or no JSON object counts as a failed
\* gate without steps, and the router is called.
MalformedIsFailure ==
    (rt_call.made /\ rt_call.kind # "object") =>
        /\ rt_routing.gate_status = "fail"
        /\ rt_routing.steps = <<>>
        /\ rt_routing.routing # NoRouting
        /\ rt_routing.routing.experts[1] = "SecurityExpert"

\* A reported overall status other than pass counts as a failed gate.
OtherStatusIsFailure ==
    (rt_call.made /\ rt_call.overall_status \in {"warn", "fail"}) =>
        rt_routing.gate_status = "fail" /\ rt_routing.routing # NoRouting

\* C37 as stated: a malformed response is a gate failure with an empty step
\* list that goes on to routing, and the gate counts as passed only when
\* its reported overall status is pass.
C37_PassOnlyOnOverallStatus ==
    /\ MalformedIsFailure
    /\ OtherStatusIsFailure
    /\ (rt_call.made /\ rt_routing.gate_status = "pass") =>
          rt_call.overall_status = "pass"

\* C37: a malformed response is a gate failure with an empty step list
\* that goes on to routing; the gate counts as passed exactly when the
\* response is a JSON object whose overall_status is pass, or which has no
\* overall_status, a status of pass and came with exit code 0; every other
\* reported overall status, such as warn, is a gate failure.
C37_PassOnOverallOrFallbackStatus ==
    /\ MalformedIsFailure
    /\ OtherStatusIsFailure
    /\ rt_call.made =>
          (rt_routing.gate_status = "pass" <=>
              /\ rt_call.kind = "object"
              /\ \/ rt_call.overall_status = "pass"
                 \/ /\ rt_call.returncode = 0
                    /\ rt_call.overall_status = "absent"
                    /\ rt_call.status = "pass")

C37_Witness ==
    /\ rt_call.made
    /\ rt_call.kind = "not_json"
    /\ rt_call.returncode = 0
    /\ rt_call.text = {"docs"}
    /\ rt_routing.gate_status = "fail"
    /\ rt_routing.routing.reason = "pipeline_failure"
    /\ rt_routing.routing.experts = <<"SecurityExpert", "TestingExpert", "DocsExpert">>

\* run_swarm was given a --spec argument that names no file.
ExplicitSpecMissing == run.resolution.made /\ run.resolution.not_a_file

\* C38: when the explicit spec path is not a file, spec resolution fails
\* (resolve_spec raises, the spec_not_found failure): it discovers no
\* candidate and generates no spec, and the run ends there, with no
\* expert selected, no worker result, no integration and no gate.
C38_MissingExplicitSpecStopsRun ==
    ExplicitSpecMissing =>
        /\ run.resolution.raised
        /\ run.resolution.mode = "none"
        /\ run.resolution.candidates = <<>>
        /\ ~run.resolution.generated
        /\ run.pc = "crashed"
        /\ run.spec_path = "none"
        /\ run.experts = <<>>
        /\ run.iteration = 0
        /\ run.all_results = <<>>
        /\ run.integration = NoIntegration
        /\ run.integration_outcome = NoOutcome
        /\ run.gate = NoGate
        /\ run.iteration_records = <<>>

\* The explicit path is missing although the repository holds a candidate
\* and generation is allowed.
C38_Witness ==
    /\ ExplicitSpecMissing
    /\ run.resolution.provided = "notes/plan.md"
    /\ run.resolution.raised
    /\ run.pc = "crashed"
    /\ run.args.max_iterations > 0

\* The last call of resolve_spec generated a spec.
LastCallGenerated ==
    rs_last.made /\ ~rs_last.raised /\ rs_last.record.mode = "generated"

\* A call without an explicit path that returned.
ReturnedWithoutExplicitPath(call) ==
    call.made /\ call.provided = "" /\ ~call.raised

\* C39: once resolve_spec has generated a spec, the copy in the latest
\* generated-artifact directory is a file, and every later resolve_spec
\* without an explicit path has it among its candidates and returns mode
\* discovered, with or without the generation flag, and generates nothing.
C39_GeneratedSpecIsDiscoveredLater ==
    /\ LastCallGenerated => IsFile(rs_fs, LatestSpecPath)
    /\ (rs_previous.made /\ IsFile(rs_last.fs_before, LatestSpecPath)
          /\ ReturnedWithoutExplicitPath(rs_last)) =>
            /\ rs_last.record.mode = "discovered"
            /\ LatestSpecPath \in SeqToSet(rs_last.record.discovered_candidates)
            /\ rs_last.record.generated_spec = "none"
            /\ rs_fs = rs_last.fs_before
    /\ (rs_previous.made /\ rs_previous.record.mode = "generated") =>
            IsFile(rs_last.fs_before, LatestSpecPath)

\* A spec was generated and the next call, with generation disabled and
\* after the clock advanced, discovered its copy and chose it.
C39_Witness ==
    /\ rs_previous.made /\ rs_previous.record.mode = "generated"
    /\ ReturnedWithoutExplicitPath(rs_last)
    /\ ~rs_last.gen_if_missing
    /\ rs_clock = 2
    /\ rs_last.record.mode = "discovered"
    /\ rs_last.record.chosen_spec = LatestSpecPath
    /\ rs_last.record.discovered_candidates = <<LatestSpecPath>>

====
